---- MODULE Spec2Model ----
(***************************************************************************)
(* CryptoPulse core: the ThresholdMonitor state machine                    *)
(* (backend/src/alerts/threshold_monitor.py) with the AlertTemplate table  *)
(* (backend/src/alerts/templates/alert_templates.py), and the explosion    *)
(* score engine (backend/src/engine: ScoreCalculator and its indicators).  *)
(*                                                                         *)
(* In the monitor, scores are integers of the 0..100 scale, amounts whole  *)
(* dollars and the UTC clock whole minutes.                                *)
(***************************************************************************)
EXTENDS Integers, Sequences, FiniteSets, TLC

(* ---------------------------------------------------------------------- *)
(* Bounds of the model                                                     *)
(* ---------------------------------------------------------------------- *)
MaxTime == 60
MaxChecks == 3
MaxAlerts == 2
MaxCalcs == 2
MaxEvaluated == 2
MaxZoneChecks == 5
MaxRunners == 2
MaxRuns == 2
MaxRegistrations == 2
MaxProcess == 4
MaxBroadcasts == 2

\* clock readings (minutes) at which the monitor is called
ClockReadings == {t \in 0..MaxTime : t = 5 \/ t % 30 = 0}

Symbols == {"BTC", "ETH"}
Scores == {50, 69, 70, 85}
Amounts == {1000000, 5000000, 10000000, 20000000, 50000000}
\* price changes of a period, in percent
Changes == {-15, -10, -9, 0, 9, 10, 15}
\* traded volumes and average volumes
Volumes == {0, 290, 300, 580, 600, 900}
AvgVolumes == {-100, 0, 100, 200}

(* ---------------------------------------------------------------------- *)
(* alert_templates.py                                                      *)
(* ---------------------------------------------------------------------- *)
SCORE_HIGH == "score_high"
SCORE_CRITICAL == "score_critical"
SCORE_SPIKE == "score_spike"
SCORE_DROP == "score_drop"
WHALE_LARGE_TX == "whale_large_tx"
PRICE_SURGE == "price_surge"
PRICE_DUMP == "price_dump"
VOLUME_SPIKE == "volume_spike"

AlertType == {SCORE_HIGH, SCORE_CRITICAL, SCORE_SPIKE, SCORE_DROP, WHALE_LARGE_TX,
              PRICE_SURGE, PRICE_DUMP, VOLUME_SPIKE}

LOW == "low"
MEDIUM == "medium"
HIGH == "high"
CRITICAL == "critical"

\* ALERT_TEMPLATES[alert_type].cooldown_minutes
ALERT_TEMPLATES == [t \in AlertType |->
    CASE t = SCORE_HIGH -> 60
      [] t = SCORE_CRITICAL -> 30
      [] t = SCORE_SPIKE -> 30
      [] t = SCORE_DROP -> 60
      [] t = WHALE_LARGE_TX -> 5
      [] t = PRICE_SURGE -> 60
      [] t = PRICE_DUMP -> 60
      [] t = VOLUME_SPIKE -> 60]

\* get_template_safe that ignores the table: the 30 minutes of the default template
get_template_safe_Default30(alert_type) == 30

\* get_template_safe(alert_type).cooldown_minutes: 30 when the table has no entry
get_template_safe(alert_type) ==
    IF alert_type \in DOMAIN ALERT_TEMPLATES THEN ALERT_TEMPLATES[alert_type] ELSE 30

(* ---------------------------------------------------------------------- *)
(* The explosion score engine: the five indicators and ScoreCalculator     *)
(* (backend/src/engine). Scores are integers in thousandths of a point     *)
(* (70000 is 70.0), weights in hundredths (30 is 0.30), so that a weighted *)
(* average is an exact fraction num/den and round(x, 2) has something to   *)
(* round.                                                                  *)
(* ---------------------------------------------------------------------- *)
None == -1
NoKey == ""

SCORE_MIN == 0
SCORE_MAX == 100000
SCORE_THRESHOLD_HIGH == 70000
SCORE_THRESHOLD_ATTENTION == 40000

WHALE == "whale_accumulation"
NETFLOW == "exchange_netflow"
VOLUME == "volume_anomaly"
OI == "oi_pressure"
NARRATIVE == "narrative_momentum"

\* the categories in the order calculate evaluates their indicators
Categories == <<WHALE, NETFLOW, VOLUME, OI, NARRATIVE>>
CategorySet == {WHALE, NETFLOW, VOLUME, OI, NARRATIVE}

\* config/constants.py
INDICATOR_WEIGHTS == [c \in CategorySet |->
    CASE c = WHALE -> 30
      [] c = NETFLOW -> 30
      [] c = VOLUME -> 20
      [] c = OI -> 15
      [] c = NARRATIVE -> 5]

\* the defaults of weights.get(key, default) in ScoreCalculator.__init__
GetDefault(c) ==
    CASE c = WHALE -> 25
      [] c = NETFLOW -> 25
      [] c = VOLUME -> 20
      [] c = OI -> 15
      [] c = NARRATIVE -> 15

\* BaseIndicator.__init__: self.weight = min(max(weight, 0.0), 1.0), no last score yet
BaseIndicator_init(weight) ==
    [weight |-> IF weight < 0 THEN 0 ELSE IF weight > 100 THEN 100 ELSE weight,
     last_score |-> None, last_calculation |-> None]

\* ScoreCalculator.__init__(custom_weights): the dict self.indicators;
\* custom_weights is <<>> for None (or an empty dict)
ScoreCalculator_init(custom_weights) ==
    LET weights == IF DOMAIN custom_weights = {} THEN INDICATOR_WEIGHTS ELSE custom_weights
    IN [c \in CategorySet |->
           BaseIndicator_init(IF c \in DOMAIN weights THEN weights[c] ELSE GetDefault(c))]

\* BaseIndicator.clamp_score
clamp_score(score) ==
    IF score < SCORE_MIN THEN SCORE_MIN ELSE IF score > SCORE_MAX THEN SCORE_MAX ELSE score

\* what a call of calculate_with_details does: it returns a score with a reason
\* in its details, or it raises
Returned(score, reason) == [raised |-> FALSE, score |-> score, reason |-> reason]
Raised == [raised |-> TRUE, score |-> 0, reason |-> ""]

\* the weighted blends of sub-scores the model draws for an indicator with a signal
Blends == {-20004, 69996, 130000}

\* WhaleIndicator inputs: the number of transactions, whether they are dicts,
\* and the blend of the four sub-scores they give
WhaleInputs ==
    {[asset_symbol |-> NoKey, transactions |-> n, well_formed |-> w, blend |-> b] :
        n \in {0, 2}, w \in BOOLEAN, b \in Blends}

\* WhaleIndicator.calculate_with_details
WhaleIndicator(input) ==
    IF input.transactions = 0
    THEN Returned(50000, "Sem transacoes de whale no periodo")
    ELSE IF ~input.well_formed THEN Raised
    ELSE Returned(clamp_score(input.blend), "whale activity")

\* VolumeIndicator inputs: len(historical_volumes), None for a null list,
\* the blend, and whether z_score > 1.5 and price_change > 2
VolumeInputs ==
    {[asset_symbol |-> NoKey, historical_volumes |-> n, blend |-> b, breakout |-> k] :
        n \in {None, 0, 2, 3}, b \in {69996, 95000}, k \in BOOLEAN}

\* VolumeIndicator.calculate_with_details
VolumeIndicator(input) ==
    IF input.historical_volumes = None THEN Raised
    ELSE IF input.historical_volumes < 3
    THEN Returned(50000, "Dados historicos insuficientes")
    ELSE LET final_score == clamp_score(input.blend) IN
         Returned(IF input.breakout
                  THEN (IF final_score + 10000 > 100000 THEN 100000 ELSE final_score + 10000)
                  ELSE final_score,
                  "volume")

\* NetflowIndicator inputs: the two flows in dollars (None for a null inflow)
NetflowInputs ==
    {[asset_symbol |-> NoKey, inflow_usd |-> i, outflow_usd |-> o, blend |-> b] :
        i \in {None, 4000, 6000}, o \in {4000, 6000}, b \in {-20004, 130000}}

\* NetflowIndicator.calculate_with_details
NetflowIndicator(input) ==
    IF input.inflow_usd = None THEN Raised
    ELSE IF input.inflow_usd + input.outflow_usd < 10000
    THEN Returned(50000, "Fluxo de exchanges muito baixo")
    ELSE Returned(clamp_score(input.blend), "netflow")

\* OpenInterestIndicator inputs: open interest now and before (0 for missing),
\* price change in percent, funding rate in 1/10000, long/short ratio in
\* hundredths (100 for missing), and whether the numbers are numbers
OIInputs ==
    {[asset_symbol |-> NoKey, current_oi |-> c, previous_oi |-> p,
      price_change_percent |-> pc, funding_rate |-> f, long_short_ratio |-> 100,
      well_formed |-> w] :
        c \in {0, 120}, p \in {0, 100}, pc \in {0, 3}, f \in {0, 3}, w \in BOOLEAN}

\* _oi_change_to_score, oi_change in percent
oi_change_to_score(oi_change) ==
    IF oi_change >= 20 THEN 85000
    ELSE IF oi_change >= 10 THEN 70000 + (oi_change - 10) * 1500
    ELSE IF oi_change >= 5 THEN 60000 + (oi_change - 5) * 2000
    ELSE IF oi_change >= -5 THEN 50000 + oi_change * 2000
    ELSE IF oi_change >= -10 THEN 40000 + (oi_change + 5) * 2000
    ELSE IF 30000 + (oi_change + 10) * 1000 < 20000 THEN 20000
    ELSE 30000 + (oi_change + 10) * 1000

\* _divergence_to_score
divergence_to_score(oi_change, price_change) ==
    LET half == IF oi_change < 0 THEN (0 - oi_change) * 500 ELSE oi_change * 500 IN
    IF oi_change > 5 /\ price_change > 2
    THEN 75000 + (IF half > 15000 THEN 15000 ELSE half)
    ELSE IF oi_change > 5 /\ price_change < -2
    THEN 70000 + (IF half > 15000 THEN 15000 ELSE half)
    ELSE IF oi_change < -5 /\ price_change > 2 THEN 65000
    ELSE IF oi_change < -5 /\ price_change < -2
    THEN 30000 - (IF half > 10000 THEN 10000 ELSE half)
    ELSE 50000

\* _funding_to_score, funding_rate in 1/10000
funding_to_score(funding_rate) ==
    LET abs == IF funding_rate < 0 THEN 0 - funding_rate ELSE funding_rate IN
    IF funding_rate <= -5 THEN 75000 + (IF abs * 1000 > 15000 THEN 15000 ELSE abs * 1000)
    ELSE IF funding_rate <= 0 THEN 60000 + abs * 500
    ELSE IF funding_rate <= 5 THEN 50000
    ELSE IF funding_rate <= 10 THEN 45000
    ELSE IF 45000 - (funding_rate - 10) * 500 < 30000 THEN 30000
    ELSE 45000 - (funding_rate - 10) * 500

\* _ratio_to_score, long_short_ratio in hundredths
ratio_to_score(long_short_ratio) ==
    IF long_short_ratio < 80
    THEN 75000 + (IF (100 - long_short_ratio) * 300 > 15000 THEN 15000
                  ELSE (100 - long_short_ratio) * 300)
    ELSE IF long_short_ratio < 100 THEN 60000 + (100 - long_short_ratio) * 500
    ELSE IF long_short_ratio < 120 THEN 50000 + (long_short_ratio - 100) * 250
    ELSE IF long_short_ratio < 150 THEN 55000
    ELSE IF 55000 - (long_short_ratio - 150) * 200 < 35000 THEN 35000
    ELSE 55000 - (long_short_ratio - 150) * 200

\* OpenInterestIndicator.calculate_with_details
OpenInterestIndicator(input) ==
    IF ~input.well_formed THEN Raised
    ELSE IF input.current_oi = 0 /\ input.previous_oi = 0
    THEN Returned(50000, "Dados de OI nao disponiveis")
    ELSE LET oi_change_percent ==
                 IF input.previous_oi > 0
                 THEN ((input.current_oi - input.previous_oi) * 100) \div input.previous_oi
                 ELSE 0
             final_score ==
                 (oi_change_to_score(oi_change_percent) * 35
                  + divergence_to_score(oi_change_percent, input.price_change_percent) * 30
                  + funding_to_score(input.funding_rate) * 20
                  + ratio_to_score(input.long_short_ratio) * 15) \div 100
         IN Returned(clamp_score(final_score), "Metricas de derivativos")

\* NarrativeIndicator inputs: how many news, events and sentiment scores there
\* are, whether they have the expected shape, and the blend they give
NarrativeInputs ==
    {[asset_symbol |-> NoKey, news |-> n, events |-> e, sentiment_scores |-> s,
      well_formed |-> w, blend |-> 69996] :
        n \in {0, 1}, e \in {0, 1}, s \in {0, 1}, w \in BOOLEAN}

\* NarrativeIndicator.calculate_with_details
NarrativeIndicator(input) ==
    IF input.news = 0 /\ input.events = 0 /\ input.sentiment_scores = 0
    THEN Returned(50000, "Sem dados de narrativa disponiveis")
    ELSE IF ~input.well_formed THEN Raised
    ELSE Returned(clamp_score(input.blend), "narrative")

\* self.indicators[...].calculate_with_details(...) of a category
calculate_with_details(c, input) ==
    CASE c = WHALE -> WhaleIndicator(input)
      [] c = NETFLOW -> NetflowIndicator(input)
      [] c = VOLUME -> VolumeIndicator(input)
      [] c = OI -> OpenInterestIndicator(input)
      [] c = NARRATIVE -> NarrativeIndicator(input)

\* dict[key] = value
Put(dict, key, value) ==
    [k \in DOMAIN dict \cup {key} |-> IF k = key THEN value ELSE dict[k]]

\* the locals of calculate before the first indicator
NoScores ==
    [indicator_scores |-> <<>>, indicator_details |-> <<>>,
     weighted_sum |-> 0, total_weight |-> 0, evaluated |-> <<>>]

\* the try body after the indicator of category c returned r; weight is its weight
TryBody(acc, c, r, weight) ==
    [indicator_scores |-> Put(acc.indicator_scores, c, r.score),
     indicator_details |-> Put(acc.indicator_details, c, [error |-> FALSE, reason |-> r.reason]),
     weighted_sum |-> acc.weighted_sum + r.score * weight,
     total_weight |-> acc.total_weight + weight,
     evaluated |-> Append(acc.evaluated, c)]

\* an except clause that records the neutral score without an error detail
ExceptClause_NoErrorDetail(acc, c, weight) ==
    [acc EXCEPT !.indicator_scores = Put(@, c, 50000),
                !.indicator_details = Put(@, c, [error |-> FALSE, reason |-> ""]),
                !.evaluated = Append(@, c)]

\* an except clause that also adds the neutral score, with the weight, to the sums
ExceptClause_CountsNeutral(acc, c, weight) ==
    [acc EXCEPT !.indicator_scores = Put(@, c, 50000),
                !.indicator_details = Put(@, c, [error |-> TRUE, reason |-> ""]),
                !.weighted_sum = @ + 50000 * weight,
                !.total_weight = @ + weight,
                !.evaluated = Append(@, c)]

\* the except clause of a category: score 50.0 and {"error": str(e)}, the sums untouched
ExceptClause(acc, c, weight) ==
    [acc EXCEPT !.indicator_scores = Put(@, c, 50000),
                !.indicator_details = Put(@, c, [error |-> TRUE, reason |-> ""]),
                !.evaluated = Append(@, c)]

\* what the awaited indicator of category c does on the caller's record:
\* doubles maps the categories whose indicator object was replaced by a stand-in
\* (tests patch calculate_with_details) to the score the stand-in returns
Outcome(c, inputs, doubles) ==
    IF c \in DOMAIN doubles THEN Returned(doubles[c], "")
    ELSE calculate_with_details(c, inputs[c])

\* lines 99-167: the five try/except blocks from the i-th on
RECURSIVE Aggregate(_, _, _, _, _)
Aggregate(acc, i, inputs, doubles, indicators_) ==
    IF i > Len(Categories) THEN acc
    ELSE LET c == Categories[i]
             r == Outcome(c, inputs, doubles)
         IN Aggregate(IF r.raised THEN ExceptClause(acc, c, indicators_[c].weight)
                      ELSE TryBody(acc, c, r, indicators_[c].weight),
                      i + 1, inputs, doubles, indicators_)

\* lines 169-173: weighted_sum / total_weight, or 50.0, as a fraction
Composite(weighted_sum, total_weight) ==
    IF total_weight > 0 THEN [num |-> weighted_sum, den |-> total_weight]
    ELSE [num |-> 50000, den |-> 1]

\* the composite left as it is
ClampComposite_None(x) == x

\* line 176: min(max(explosion_score, 0), 100)
ClampComposite(x) ==
    IF x.num < 0 THEN [num |-> 0, den |-> 1]
    ELSE IF x.num > 100000 * x.den THEN [num |-> 100000, den |-> 1]
    ELSE x

\* _determine_status, of a fraction
determine_status(x) ==
    IF x.num >= SCORE_THRESHOLD_HIGH * x.den THEN "high"
    ELSE IF x.num >= SCORE_THRESHOLD_ATTENTION * x.den THEN "attention"
    ELSE "low"

\* round(num / den, 2) in thousandths: the nearest hundredth, a tie to the even one
Round2(num, den) ==
    LET q == num \div (10 * den)
        r == num % (10 * den)
    IN 10 * (IF 2 * r < 10 * den THEN q
             ELSE IF 2 * r > 10 * den THEN q + 1
             ELSE IF q % 2 = 0 THEN q ELSE q + 1)

\* a category record of the caller that holds nothing / is malformed / has a signal
EmptyInput(c) ==
    CASE c = WHALE -> [asset_symbol |-> NoKey, transactions |-> 0, well_formed |-> TRUE,
                       blend |-> 69996]
      [] c = NETFLOW -> [asset_symbol |-> NoKey, inflow_usd |-> 4000, outflow_usd |-> 4000,
                         blend |-> 130000]
      [] c = VOLUME -> [asset_symbol |-> NoKey, historical_volumes |-> 2, blend |-> 69996,
                        breakout |-> FALSE]
      [] c = OI -> [asset_symbol |-> NoKey, current_oi |-> 0, previous_oi |-> 0,
                    price_change_percent |-> 0, funding_rate |-> 0,
                    long_short_ratio |-> 100, well_formed |-> TRUE]
      [] c = NARRATIVE -> [asset_symbol |-> NoKey, news |-> 0, events |-> 0,
                           sentiment_scores |-> 0, well_formed |-> TRUE, blend |-> 69996]

BadInput(c) ==
    CASE c = WHALE -> [asset_symbol |-> NoKey, transactions |-> 2, well_formed |-> FALSE,
                       blend |-> 69996]
      [] c = NETFLOW -> [asset_symbol |-> NoKey, inflow_usd |-> None, outflow_usd |-> 6000,
                         blend |-> 130000]
      [] c = VOLUME -> [asset_symbol |-> NoKey, historical_volumes |-> None, blend |-> 69996,
                        breakout |-> FALSE]
      [] c = OI -> [asset_symbol |-> NoKey, current_oi |-> 120, previous_oi |-> 100,
                    price_change_percent |-> 3, funding_rate |-> 0,
                    long_short_ratio |-> 100, well_formed |-> FALSE]
      [] c = NARRATIVE -> [asset_symbol |-> NoKey, news |-> 1, events |-> 0,
                           sentiment_scores |-> 0, well_formed |-> FALSE, blend |-> 69996]

SignalInput(c) ==
    CASE c = WHALE -> [asset_symbol |-> NoKey, transactions |-> 2, well_formed |-> TRUE,
                       blend |-> 69996]
      [] c = NETFLOW -> [asset_symbol |-> NoKey, inflow_usd |-> 6000, outflow_usd |-> 6000,
                         blend |-> 130000]
      [] c = VOLUME -> [asset_symbol |-> NoKey, historical_volumes |-> 3, blend |-> 69996,
                        breakout |-> FALSE]
      [] c = OI -> [asset_symbol |-> NoKey, current_oi |-> 120, previous_oi |-> 100,
                    price_change_percent |-> 3, funding_rate |-> 0,
                    long_short_ratio |-> 100, well_formed |-> TRUE]
      [] c = NARRATIVE -> [asset_symbol |-> NoKey, news |-> 1, events |-> 0,
                           sentiment_scores |-> 0, well_formed |-> TRUE, blend |-> 69996]

(* ---------------------------------------------------------------------- *)
(* Jobs and the scheduler (backend/src/jobs/base_job.py and scheduler.py). *)
(* Every coroutine runs on one event loop, so a step of the model is the   *)
(* code between two awaits that may suspend.                               *)
(* ---------------------------------------------------------------------- *)
STOPPED == "stopped"
STARTING == "starting"
RUNNING == "running"
PAUSED == "paused"
STOPPING == "stopping"
SchedulerState == {STOPPED, STARTING, RUNNING, PAUSED, STOPPING}

\* the job the scheduler registers, and a job a caller builds and runs itself
HEALTH_CHECK == "health_check"
FAILING_JOB == "failing_job"
JobIds == {HEALTH_CHECK}

\* config.max_retries of a job
ConfigMaxRetries(job_id) == IF job_id = HEALTH_CHECK THEN 1 ELSE 2

\* the error of a JobResult
NoError == "none"
CANCELLED == "Job cancelado"
TIMEOUT == "Timeout"
ERROR == "error"

\* a task that is in no call; executes and failures count the attempts that
\* began and the attempts that ended without success
IdleRunner == [kind |-> "", pc |-> "idle", job |-> 0, attempt |-> 0, retry_count |-> 0,
               error |-> NoError, cancel |-> FALSE, executes |-> 0, failures |-> 0]

\* BaseJob.__init__; setups, cleanups and executing count the calls of the hooks
BaseJob_init(job_id) ==
    [job_id |-> job_id, max_retries |-> ConfigMaxRetries(job_id), is_running |-> FALSE,
     should_stop |-> FALSE, total_runs |-> 0, successful_runs |-> 0, failed_runs |-> 0,
     history |-> 0, setups |-> 0, cleanups |-> 0, executing |-> 0]

(* ---------------------------------------------------------------------- *)
(* WebSocket connections (backend/src/api/websocket/manager.py, router.py) *)
(* ---------------------------------------------------------------------- *)
\* the keys of WebSocketManager.subscriptions
Channels == {"scores", "prices", "alerts", "all"}

\* the clients that connect, each with its own client_id
Clients == {"c1", "c2"}

\* the channel a subscribe or unsubscribe message names
MessageChannels == {"scores", "all", "unknown"}

\* the channel of each broadcast_* method
ChannelOf(kind) ==
    CASE kind = "score_update" -> "scores"
      [] kind = "price_update" -> "prices"
      [] kind = "alert" -> "alerts"

\* no broadcast_* call is in progress and none was made
NoBroadcast == [kind |-> "", channel |-> "", pending |-> {},
                delivered |-> [c \in Clients |-> 0]]

(* ---------------------------------------------------------------------- *)
(* ThresholdMonitor                                                        *)
(* ---------------------------------------------------------------------- *)
SCORE_HIGH_THRESHOLD == 70
SCORE_CRITICAL_THRESHOLD == 85
SCORE_SPIKE_DELTA == 15
SCORE_DROP_DELTA == -15
WHALE_MIN_USD == 5000000
PRICE_SURGE_PERCENT == 10
PRICE_DUMP_PERCENT == -10
VOLUME_SPIKE_MULTIPLIER == 3

VARIABLES
    now,          \* datetime.utcnow(), minutes
    cooldowns,    \* self._cooldowns: key -> time the alert was emitted
    last_scores,  \* self._last_scores: symbol -> score
    check_count,  \* self._check_count
    alert_count,  \* self._alert_count
    call,         \* the last call made on the monitor and its locals
    result,       \* the candidates the last call returned, in order
    tasks,        \* asyncio tasks in AlertManager.process_score: position and locals
    running,      \* the task the event loop is executing, or NoTask
    indicators,   \* ScoreCalculator.indicators: weight and last state per category
    calculation_count,  \* ScoreCalculator._calculation_count
    last_calculation,   \* ScoreCalculator._last_calculation
    data,         \* the dict a caller passed to calculate, as the call left it
    score_call,   \* the last call made on the calculator or an indicator, and its locals
    score_result, \* what that call returned
    state,        \* CryptoPulseScheduler._state
    scheduler,    \* the state of the AsyncIOScheduler in self._scheduler, "none" before there is one
    ctl,          \* where a start() or stop() call is: both run without suspending
    jobs,         \* CryptoPulseScheduler._jobs: job id -> job object
    instances,    \* the BaseJob objects created so far
    runners,      \* the asyncio tasks that call run(): position and locals
    total_executions,  \* CryptoPulseScheduler._total_executions
    total_errors, \* CryptoPulseScheduler._total_errors
    process_count,      \* AlertManager._process_count
    created_alerts,     \* AlertManager._created_alerts
    sent_notifications, \* AlertManager._sent_notifications
    alerts_db,    \* the alert rows committed to the database, in order of their ids
    manager_call, \* the last call made on the alert manager, and what it returned
    active_connections, \* WebSocketManager.active_connections: the client ids that are keys
    subscriptions,      \* WebSocketManager.subscriptions: channel -> set of client ids
    endpoints,    \* where the websocket_endpoint coroutine of each client is
    broadcasting, \* the broadcast_* call in progress, and what it delivered to whom
    broadcast_count     \* the broadcast_* calls made so far

monitor_vars == <<now, cooldowns, last_scores, check_count, alert_count, call, result,
                  tasks, running>>
calculator_vars == <<indicators, calculation_count, last_calculation, data,
                     score_call, score_result>>
job_vars == <<state, scheduler, ctl, jobs, instances, runners,
              total_executions, total_errors>>
manager_vars == <<process_count, created_alerts, sent_notifications, alerts_db, manager_call>>
ws_vars == <<active_connections, subscriptions, endpoints, broadcasting, broadcast_count>>
service_vars == <<job_vars, manager_vars, ws_vars>>
outside_job_vars == <<monitor_vars, calculator_vars, manager_vars, ws_vars>>
outside_ws_vars == <<monitor_vars, calculator_vars, job_vars, manager_vars>>
vars == <<now, cooldowns, last_scores, check_count, alert_count, call, result,
          tasks, running, indicators, calculation_count, last_calculation, data,
          score_call, score_result, state, scheduler, ctl, jobs, instances, runners,
          total_executions, total_errors, process_count, created_alerts,
          sent_notifications, alerts_db, manager_call, active_connections,
          subscriptions, endpoints, broadcasting, broadcast_count>>

\* the tasks that call the monitor on the one event loop
Tasks == {"t1", "t2"}
NoTask == "none"
\* at, cd0 and ls0 record the clock and the two maps as the call found them
IdleTask == [pc |-> "idle", symbol |-> "", score |-> 0, previous |-> 0,
             pending |-> <<>>, alerts |-> <<>>, at |-> 0, cd0 |-> <<>>, ls0 |-> <<>>]

\* a cooldown key that leaves the symbol out
get_cooldown_key_NoSymbol(alert_type, symbol) == <<alert_type, "*">>

\* _get_cooldown_key: f"{alert_type.value}:{symbol}"
get_cooldown_key(alert_type, symbol) == <<alert_type, symbol>>

\* _is_in_cooldown reading cooldown_minutes as seconds: timedelta(seconds=...)
is_in_cooldown_Seconds(cd, t, alert_type, symbol) ==
    LET key == <<alert_type, symbol>> IN
    IF key \notin DOMAIN cd THEN FALSE
    ELSE t < cd[key] + (get_template_safe(alert_type) \div 60)

\* _is_in_cooldown, on a cooldown map cd at time t
is_in_cooldown(cd, t, alert_type, symbol) ==
    LET key == get_cooldown_key(alert_type, symbol) IN
    IF key \notin DOMAIN cd THEN FALSE
    ELSE t < cd[key] + get_template_safe(alert_type)

\* _set_cooldown, on a cooldown map cd at time t
set_cooldown(cd, t, alert_type, symbol) ==
    LET key == get_cooldown_key(alert_type, symbol) IN
    [k \in DOMAIN cd \cup {key} |-> IF k = key THEN t ELSE cd[k]]

AlertCandidate(alert_type, severity, symbol, value) ==
    [alert_type |-> alert_type, severity |-> severity, symbol |-> symbol, value |-> value]

\* ZoneAlerts without the zone-entry test: high fires whenever the score is in the zone
ZoneAlerts_NoHysteresis(cd, t, symbol, current_score, previous_score) ==
    IF current_score >= SCORE_CRITICAL_THRESHOLD
    THEN IF ~is_in_cooldown(cd, t, SCORE_CRITICAL, symbol)
         THEN <<AlertCandidate(SCORE_CRITICAL, CRITICAL, symbol, current_score)>>
         ELSE <<>>
    ELSE IF current_score >= SCORE_HIGH_THRESHOLD
    THEN IF ~is_in_cooldown(cd, t, SCORE_HIGH, symbol)
         THEN <<AlertCandidate(SCORE_HIGH, HIGH, symbol, current_score)>>
         ELSE <<>>
    ELSE <<>>

\* ZoneAlerts where a critical score in cooldown falls through to the high branch
ZoneAlerts_FallThrough(cd, t, symbol, current_score, previous_score) ==
    IF current_score >= SCORE_CRITICAL_THRESHOLD
       /\ ~is_in_cooldown(cd, t, SCORE_CRITICAL, symbol)
    THEN <<AlertCandidate(SCORE_CRITICAL, CRITICAL, symbol, current_score)>>
    ELSE IF current_score >= SCORE_HIGH_THRESHOLD
    THEN IF previous_score < SCORE_HIGH_THRESHOLD
            /\ ~is_in_cooldown(cd, t, SCORE_HIGH, symbol)
         THEN <<AlertCandidate(SCORE_HIGH, HIGH, symbol, current_score)>>
         ELSE <<>>
    ELSE <<>>

\* check_score, step 1 and 2: the zone alerts (critical, else high on entry)
ZoneAlerts(cd, t, symbol, current_score, previous_score) ==
    IF current_score >= SCORE_CRITICAL_THRESHOLD
    THEN IF ~is_in_cooldown(cd, t, SCORE_CRITICAL, symbol)
         THEN <<AlertCandidate(SCORE_CRITICAL, CRITICAL, symbol, current_score)>>
         ELSE <<>>
    ELSE IF current_score >= SCORE_HIGH_THRESHOLD
    THEN IF previous_score < SCORE_HIGH_THRESHOLD
            /\ ~is_in_cooldown(cd, t, SCORE_HIGH, symbol)
         THEN <<AlertCandidate(SCORE_HIGH, HIGH, symbol, current_score)>>
         ELSE <<>>
    ELSE <<>>

\* check_score, step 3 and 4: the delta alerts (spike, else drop)
DeltaAlerts(cd, t, symbol, current_score, previous_score) ==
    LET delta == current_score - previous_score IN
    IF delta >= SCORE_SPIKE_DELTA
    THEN IF ~is_in_cooldown(cd, t, SCORE_SPIKE, symbol)
         THEN <<AlertCandidate(SCORE_SPIKE, HIGH, symbol, current_score)>>
         ELSE <<>>
    ELSE IF delta <= SCORE_DROP_DELTA
    THEN IF ~is_in_cooldown(cd, t, SCORE_DROP, symbol)
         THEN <<AlertCandidate(SCORE_DROP, MEDIUM, symbol, current_score)>>
         ELSE <<>>
    ELSE <<>>

\* the _set_cooldown calls of a list of emitted candidates
RECURSIVE SetCooldowns(_, _, _)
SetCooldowns(cd, t, alerts) ==
    IF alerts = <<>> THEN cd
    ELSE SetCooldowns(set_cooldown(cd, t, Head(alerts).alert_type, Head(alerts).symbol),
                      t, Tail(alerts))

Init ==
    /\ now = 0
    /\ cooldowns = <<>>
    /\ last_scores = <<>>
    /\ check_count = 0
    /\ alert_count = 0
    /\ call = [op |-> "init", symbol |-> "", value |-> 0, previous |-> 0]
    /\ result = <<>>
    /\ tasks = [i \in Tasks |-> IdleTask]
    /\ running = NoTask
    /\ indicators = ScoreCalculator_init(<<>>)
    /\ calculation_count = 0
    /\ last_calculation = None
    /\ data = <<>>
    /\ score_call = [op |-> "__init__", custom_weights |-> <<>>]
    /\ score_result = <<>>
    /\ state = STOPPED
    /\ scheduler = "none"
    /\ ctl = "idle"
    /\ jobs = <<>>
    /\ instances = <<>>
    /\ runners = [r \in 1..MaxRunners |-> IdleRunner]
    /\ total_executions = 0
    /\ total_errors = 0
    /\ process_count = 0
    /\ created_alerts = 0
    /\ sent_notifications = 0
    /\ alerts_db = <<>>
    /\ manager_call = [op |-> "__init__", symbol |-> "", candidates |-> <<>>,
                       failed |-> {}, created_ids |-> <<>>]
    /\ active_connections = {}
    /\ subscriptions = [channel \in Channels |-> {}]
    /\ endpoints = [c \in Clients |-> "closed"]
    /\ broadcasting = NoBroadcast
    /\ broadcast_count = 0

\* self._last_scores.get(symbol, 0): a missing last score read as 0
PreviousScore_DefaultZero(ls, symbol, current_score) ==
    IF symbol \in DOMAIN ls THEN ls[symbol] ELSE 0

\* line 165: self._last_scores.get(symbol, current_score)
PreviousScore(ls, symbol, current_score) ==
    IF symbol \in DOMAIN ls THEN ls[symbol] ELSE current_score

\* ScoreAlerts where the delta alerts are only looked at when no zone alert fired
ScoreAlerts_ZoneSuppressesDelta(cd, t, symbol, current_score, previous_score) ==
    LET zone == ZoneAlerts(cd, t, symbol, current_score, previous_score)
    IN IF zone # <<>> THEN zone
       ELSE DeltaAlerts(cd, t, symbol, current_score, previous_score)

\* lines 168-263: the zone alerts, then the delta alerts evaluated on the
\* cooldown map as the zone alerts left it
ScoreAlerts(cd, t, symbol, current_score, previous_score) ==
    LET zone == ZoneAlerts(cd, t, symbol, current_score, previous_score)
        cd1 == SetCooldowns(cd, t, zone)
    IN zone \o DeltaAlerts(cd1, t, symbol, current_score, previous_score)

\* a last-score map that keeps the first score it saw of a symbol
SetLastScore_FirstOnly(ls, symbol, current_score) ==
    [s \in DOMAIN ls \cup {symbol} |-> IF s \in DOMAIN ls THEN ls[s] ELSE current_score]

\* line 166: self._last_scores[symbol] = current_score
SetLastScore(ls, symbol, current_score) ==
    [s \in DOMAIN ls \cup {symbol} |-> IF s = symbol THEN current_score ELSE ls[s]]

\* what check_score does to the monitor, lines 161-265
check_score_monitor(symbol, current_score) ==
    LET previous_score == PreviousScore(last_scores, symbol, current_score)
        alerts == ScoreAlerts(cooldowns, now, symbol, current_score, previous_score)
    IN
    /\ check_count' = check_count + 1
    /\ last_scores' = SetLastScore(last_scores, symbol, current_score)
    /\ cooldowns' = SetCooldowns(cooldowns, now, alerts)
    /\ alert_count' = alert_count + Len(alerts)
    /\ result' = alerts
    /\ call' = [op |-> "check_score", symbol |-> symbol, value |-> current_score,
                previous |-> previous_score]
    /\ UNCHANGED <<now, tasks, running>>

\* the body of check_score, called on the monitor directly
check_score_body(symbol, current_score) ==
    /\ check_score_monitor(symbol, current_score)
    /\ UNCHANGED calculator_vars
    /\ UNCHANGED service_vars

\* async def check_score(asset_id, symbol, current_score, ...)
check_score(symbol, current_score) ==
    /\ check_count < MaxChecks
    /\ check_score_body(symbol, current_score)

\* the severity tiers with strict comparisons
WhaleSeverity_Strict(amount_usd) ==
    IF amount_usd > 50000000 THEN CRITICAL
    ELSE IF amount_usd > 20000000 THEN HIGH
    ELSE IF amount_usd > 10000000 THEN MEDIUM
    ELSE LOW

\* severity tier of check_whale_transaction
WhaleSeverity(amount_usd) ==
    IF amount_usd >= 50000000 THEN CRITICAL
    ELSE IF amount_usd >= 20000000 THEN HIGH
    ELSE IF amount_usd >= 10000000 THEN MEDIUM
    ELSE LOW

\* async def check_whale_transaction(asset_id, symbol, amount_usd, ...)
check_whale_transaction(symbol, amount_usd) ==
    /\ alert_count < MaxAlerts
    /\ call' = [op |-> "check_whale_transaction", symbol |-> symbol,
                value |-> amount_usd, previous |-> 0]
    /\ IF amount_usd < WHALE_MIN_USD
       THEN /\ result' = <<>>
            /\ UNCHANGED <<cooldowns, alert_count>>
       ELSE IF is_in_cooldown(cooldowns, now, WHALE_LARGE_TX, symbol)
       THEN /\ result' = <<>>
            /\ UNCHANGED <<cooldowns, alert_count>>
       ELSE /\ result' = <<AlertCandidate(WHALE_LARGE_TX, WhaleSeverity(amount_usd),
                                          symbol, amount_usd)>>
            /\ cooldowns' = set_cooldown(cooldowns, now, WHALE_LARGE_TX, symbol)
            /\ alert_count' = alert_count + 1
    /\ UNCHANGED calculator_vars
    /\ UNCHANGED service_vars
    /\ UNCHANGED <<now, last_scores, check_count, tasks, running>>

\* a clear that also forgets the last scores
clear_cooldowns_ClearsAll ==
    /\ cooldowns' = <<>>
    /\ last_scores' = <<>>
    /\ call' = [op |-> "clear_cooldowns", symbol |-> "", value |-> 0, previous |-> 0]
    /\ result' = <<>>
    /\ UNCHANGED calculator_vars
    /\ UNCHANGED service_vars
    /\ UNCHANGED <<now, check_count, alert_count, tasks, running>>

\* def clear_cooldowns(self)
clear_cooldowns ==
    /\ cooldowns' = <<>>
    /\ call' = [op |-> "clear_cooldowns", symbol |-> "", value |-> 0, previous |-> 0]
    /\ result' = <<>>
    /\ UNCHANGED calculator_vars
    /\ UNCHANGED service_vars
    /\ UNCHANGED <<now, last_scores, check_count, alert_count, tasks, running>>

\* the clock moves on between two calls
Tick ==
    /\ \E t \in ClockReadings : t > now /\ now' = t
    /\ UNCHANGED calculator_vars
    /\ UNCHANGED service_vars
    /\ UNCHANGED <<cooldowns, last_scores, check_count, alert_count, call, result,
                   tasks, running>>

CheckScore == \E symbol \in Symbols, current_score \in Scores : check_score(symbol, current_score)
CheckWhale == \E symbol \in Symbols, amount_usd \in Amounts : check_whale_transaction(symbol, amount_usd)

Next ==
    \/ CheckScore
    \/ CheckWhale
    \/ clear_cooldowns
    \/ Tick

Spec == Init /\ [][Next]_vars

(* ---------------------------------------------------------------------- *)
(* One symbol checked again and again as its score moves around the zone   *)
(* ---------------------------------------------------------------------- *)
\* the scores around the high zone and the critical zone
ZoneScores == {69, 70, 85}

ReCheckScore ==
    \E symbol \in {"BTC"}, current_score \in ZoneScores :
        /\ check_count < MaxZoneChecks
        /\ check_score_body(symbol, current_score)

NextZone ==
    \/ ReCheckScore
    \/ Tick

SpecZone == Init /\ [][NextZone]_vars

(* ---------------------------------------------------------------------- *)
(* The price and volume checks of the monitor                              *)
(* ---------------------------------------------------------------------- *)

\* the price alert of a change where a surge and a dump share one cooldown
PriceAlerts_SharedCooldown(cd, t, symbol, change_percent) ==
    IF change_percent >= PRICE_SURGE_PERCENT
    THEN IF is_in_cooldown(cd, t, PRICE_SURGE, symbol)
              \/ is_in_cooldown(cd, t, PRICE_DUMP, symbol)
         THEN <<>>
         ELSE <<AlertCandidate(PRICE_SURGE, MEDIUM, symbol, change_percent)>>
    ELSE IF change_percent <= PRICE_DUMP_PERCENT
    THEN IF is_in_cooldown(cd, t, PRICE_SURGE, symbol)
              \/ is_in_cooldown(cd, t, PRICE_DUMP, symbol)
         THEN <<>>
         ELSE <<AlertCandidate(PRICE_DUMP, MEDIUM, symbol, change_percent)>>
    ELSE <<>>

\* lines 363-427: the candidate check_price_change returns, <<>> for None
PriceAlerts(cd, t, symbol, change_percent) ==
    IF change_percent >= PRICE_SURGE_PERCENT
    THEN IF is_in_cooldown(cd, t, PRICE_SURGE, symbol)
         THEN <<>>
         ELSE <<AlertCandidate(PRICE_SURGE, MEDIUM, symbol, change_percent)>>
    ELSE IF change_percent <= PRICE_DUMP_PERCENT
    THEN IF is_in_cooldown(cd, t, PRICE_DUMP, symbol)
         THEN <<>>
         ELSE <<AlertCandidate(PRICE_DUMP, MEDIUM, symbol, change_percent)>>
    ELSE <<>>

\* async def check_price_change(asset_id, symbol, change_percent, ...)
check_price_change(symbol, change_percent) ==
    LET alerts == PriceAlerts(cooldowns, now, symbol, change_percent) IN
    /\ alert_count < MaxAlerts
    /\ call' = [op |-> "check_price_change", symbol |-> symbol,
                value |-> change_percent, previous |-> 0]
    /\ result' = alerts
    /\ cooldowns' = SetCooldowns(cooldowns, now, alerts)
    /\ alert_count' = alert_count + Len(alerts)
    /\ UNCHANGED calculator_vars
    /\ UNCHANGED service_vars
    /\ UNCHANGED <<now, last_scores, check_count, tasks, running>>

\* line 451: multiplier = current_volume / avg_volume, in hundredths
\* (the volumes of the model divide without remainder)
Multiplier(current_volume, avg_volume) == (current_volume * 100) \div avg_volume

\* the volume alert with a strict comparison: a multiplier of 3.0 is no spike
VolumeAlerts_StrictGreater(cd, t, symbol, current_volume, avg_volume) ==
    IF avg_volume <= 0 THEN <<>>
    ELSE LET multiplier == Multiplier(current_volume, avg_volume) IN
         IF multiplier <= VOLUME_SPIKE_MULTIPLIER * 100 THEN <<>>
         ELSE IF is_in_cooldown(cd, t, VOLUME_SPIKE, symbol) THEN <<>>
         ELSE <<AlertCandidate(VOLUME_SPIKE, MEDIUM, symbol, multiplier)>>

\* lines 448-484: the candidate check_volume_spike returns, <<>> for None
VolumeAlerts(cd, t, symbol, current_volume, avg_volume) ==
    IF avg_volume <= 0 THEN <<>>
    ELSE LET multiplier == Multiplier(current_volume, avg_volume) IN
         IF multiplier < VOLUME_SPIKE_MULTIPLIER * 100 THEN <<>>
         ELSE IF is_in_cooldown(cd, t, VOLUME_SPIKE, symbol) THEN <<>>
         ELSE <<AlertCandidate(VOLUME_SPIKE, MEDIUM, symbol, multiplier)>>

\* async def check_volume_spike(asset_id, symbol, current_volume, avg_volume)
check_volume_spike(symbol, current_volume, avg_volume) ==
    LET alerts == VolumeAlerts(cooldowns, now, symbol, current_volume, avg_volume) IN
    /\ alert_count < MaxAlerts
    /\ call' = [op |-> "check_volume_spike", symbol |-> symbol,
                value |-> current_volume, previous |-> 0, avg_volume |-> avg_volume]
    /\ result' = alerts
    /\ cooldowns' = SetCooldowns(cooldowns, now, alerts)
    /\ alert_count' = alert_count + Len(alerts)
    /\ UNCHANGED calculator_vars
    /\ UNCHANGED service_vars
    /\ UNCHANGED <<now, last_scores, check_count, tasks, running>>

CheckPrice == \E symbol \in Symbols, change_percent \in Changes :
    check_price_change(symbol, change_percent)
CheckVolume == \E symbol \in Symbols, current_volume \in Volumes, avg_volume \in AvgVolumes :
    check_volume_spike(symbol, current_volume, avg_volume)

NextEvents ==
    \/ CheckPrice
    \/ CheckVolume
    \/ clear_cooldowns
    \/ Tick

SpecEvents == Init /\ [][NextEvents]_vars

(* ---------------------------------------------------------------------- *)
(* ScoreCalculator: calculate and update_weights. The indicator coroutines *)
(* never suspend, so a calculate call runs to its return in one step.      *)
(* ---------------------------------------------------------------------- *)

\* the per-category records callers pass: any subset of the categories is
\* malformed and the others carry a signal, or every category is empty, or
\* all carry a signal and the netflow blend is below the scale
DataSets ==
    {[c \in CategorySet |-> IF c \in F THEN BadInput(c) ELSE SignalInput(c)] :
        F \in SUBSET CategorySet}
    \cup {[c \in CategorySet |-> EmptyInput(c)]}
    \cup {[c \in CategorySet |-> IF c = NETFLOW
                                  THEN [SignalInput(c) EXCEPT !.blend = -20004]
                                  ELSE SignalInput(c)]}

\* the stand-ins tests put in place of indicators, with the score they return
DoubleSets == {<<>>, [c \in CategorySet |-> 150000], [c \in {WHALE} |-> -20004]}

\* the dicts passed to update_weights, by short or long key: 0.5 for one
\* indicator, 0.0 for all, and 1.2 for one with 0.0 for the others
UpdateSets == {[k \in {"whale"} |-> 50], [k \in CategorySet |-> 0],
               [k \in CategorySet |-> IF k = WHALE THEN 120 ELSE 0]}

\* async def calculate(self, data), data = {"asset_symbol": ..., "<category>_data": inputs}
calculate(asset_symbol, inputs, doubles) ==
    \E acc \in {Aggregate(NoScores, 1, inputs, doubles, indicators)} :
    \E explosion_score \in {ClampComposite(Composite(acc.weighted_sum, acc.total_weight))} :
    /\ calculation_count < MaxCalcs
    /\ data' = [asset_symbol |-> asset_symbol,
                inputs |-> [c \in CategorySet |->
                               [inputs[c] EXCEPT !.asset_symbol = asset_symbol]]]
    /\ indicators' = [c \in CategorySet |->
           IF c \notin DOMAIN doubles /\ ~acc.indicator_details[c].error
           THEN [indicators[c] EXCEPT !.last_score = acc.indicator_scores[c],
                                      !.last_calculation = now]
           ELSE indicators[c]]
    /\ last_calculation' = now
    /\ calculation_count' = calculation_count + 1
    /\ score_call' = [op |-> "calculate", asset_symbol |-> asset_symbol, inputs |-> inputs,
                      doubles |-> doubles, evaluated |-> acc.evaluated,
                      indicator_scores |-> acc.indicator_scores,
                      weighted_sum |-> acc.weighted_sum, total_weight |-> acc.total_weight,
                      explosion_score |-> explosion_score]
    /\ score_result' =
           [explosion_score |-> Round2(explosion_score.num, explosion_score.den),
            status |-> determine_status(explosion_score),
            indicator_scores |-> [c \in DOMAIN acc.indicator_scores |->
                                     Round2(acc.indicator_scores[c], 1)],
            indicator_details |-> acc.indicator_details,
            weights |-> [c \in CategorySet |-> indicators[c].weight],
            calculated_at |-> now,
            asset_symbol |-> asset_symbol]
    /\ UNCHANGED monitor_vars
    /\ UNCHANGED service_vars

\* the category a key of update_weights names
CategoryOfKey(key) ==
    CASE key \in {"whale", WHALE} -> WHALE
      [] key \in {"netflow", NETFLOW} -> NETFLOW
      [] key \in {"volume", VOLUME} -> VOLUME
      [] key \in {"oi", OI} -> OI
      [] key \in {"narrative", NARRATIVE} -> NARRATIVE

\* def update_weights(self, new_weights): the weights are stored as given
update_weights(new_weights) ==
    /\ \E key \in DOMAIN new_weights :
           indicators[CategoryOfKey(key)].weight # new_weights[key]
    /\ indicators' = [c \in CategorySet |->
           IF \E key \in DOMAIN new_weights : CategoryOfKey(key) = c
           THEN [indicators[c] EXCEPT !.weight =
                    new_weights[CHOOSE key \in DOMAIN new_weights : CategoryOfKey(key) = c]]
           ELSE indicators[c]]
    /\ score_call' = [op |-> "update_weights", new_weights |-> new_weights]
    /\ score_result' = <<>>
    /\ UNCHANGED <<monitor_vars, calculation_count, last_calculation, data>>
    /\ UNCHANGED service_vars
    /\ UNCHANGED service_vars

Calculate == \E asset_symbol \in Symbols, inputs \in DataSets, doubles \in DoubleSets :
    /\ doubles = <<>> \/ inputs = [c \in CategorySet |-> EmptyInput(c)]
    /\ calculate(asset_symbol, inputs, doubles)
UpdateWeights == \E new_weights \in UpdateSets : update_weights(new_weights)

NextScore ==
    \/ Calculate
    \/ UpdateWeights

SpecScore == Init /\ [][NextScore]_vars

(* ---------------------------------------------------------------------- *)
(* The indicators called on their own                                      *)
(* ---------------------------------------------------------------------- *)

\* the categories whose indicator has calculated
Evaluated == {c \in CategorySet : indicators[c].last_calculation # None}

\* await indicator.calculate_with_details(input), with _update_state before a return
Evaluate(c, input) ==
    LET r == calculate_with_details(c, input) IN
    /\ Cardinality(Evaluated \cup {c}) <= MaxEvaluated
    /\ score_call' = [op |-> "calculate_with_details", category |-> c, input |-> input]
    /\ score_result' = r
    /\ indicators' = IF r.raised THEN indicators
                     ELSE [indicators EXCEPT ![c].last_score = r.score,
                                             ![c].last_calculation = now]
    /\ UNCHANGED <<monitor_vars, calculation_count, last_calculation, data>>
    /\ UNCHANGED service_vars

EvaluateWhale == \E input \in WhaleInputs : Evaluate(WHALE, input)
EvaluateNetflow == \E input \in NetflowInputs : Evaluate(NETFLOW, input)
EvaluateVolume == \E input \in VolumeInputs : Evaluate(VOLUME, input)
EvaluateOI == \E input \in OIInputs : Evaluate(OI, input)
EvaluateNarrative == \E input \in NarrativeInputs : Evaluate(NARRATIVE, input)

NextIndicators ==
    \/ EvaluateWhale
    \/ EvaluateNetflow
    \/ EvaluateVolume
    \/ EvaluateOI
    \/ EvaluateNarrative

SpecIndicators == Init /\ [][NextIndicators]_vars

(* ---------------------------------------------------------------------- *)
(* AlertManager (backend/src/alerts/alert_manager.py): process_score hands *)
(* a score to its monitor and persists and sends each candidate.           *)
(* ---------------------------------------------------------------------- *)

\* a manager that stores a row even when create_alert or commit raised
create_and_send_Always(candidate, persists) ==
    <<[alert_type |-> candidate.alert_type, symbol |-> candidate.symbol]>>

\* _create_and_send, lines 173-207: the row that create_alert and commit leave
\* in the database, or no row when one of them raises (the except clause
\* returns None)
create_and_send(candidate, persists) ==
    IF persists THEN <<[alert_type |-> candidate.alert_type, symbol |-> candidate.symbol]>>
    ELSE <<>>

\* _send_notifications: the channels a stored alert is sent to
ChannelsOf(candidate) == IF candidate.severity = CRITICAL THEN 3 ELSE 2

\* the loop of process_score over the candidates from position i on, lines
\* 77-81; persisted holds the positions whose create_alert and commit succeed
RECURSIVE CreateAll(_, _, _, _)
CreateAll(candidates, i, persisted, acc) ==
    IF i > Len(candidates) THEN acc
    ELSE LET rows == create_and_send(candidates[i], i \in persisted) IN
         IF rows = <<>>
         THEN CreateAll(candidates, i + 1, persisted, acc)
         ELSE CreateAll(candidates, i + 1, persisted,
                        [db |-> acc.db \o rows,
                         created_ids |-> Append(acc.created_ids, Len(acc.db) + 1),
                         channels |-> acc.channels + ChannelsOf(candidates[i])])

\* async def process_score(self, asset_id, symbol, score, ...); sent is the
\* number of channel.send calls that returned True; the call records the
\* positions of the candidates that could not be persisted
process_score(symbol, score, persisted, sent) ==
    LET candidates == result'
        acc == CreateAll(candidates, 1, persisted,
                         [db |-> alerts_db, created_ids |-> <<>>, channels |-> 0])
    IN
    /\ process_count < MaxProcess
    /\ process_count' = process_count + 1
    /\ check_score_monitor(symbol, score)
    /\ persisted \subseteq 1..Len(candidates)
    /\ sent <= acc.channels
    /\ alerts_db' = acc.db
    /\ created_alerts' = created_alerts + Len(acc.created_ids)
    /\ sent_notifications' = sent_notifications + sent
    /\ manager_call' = [op |-> "process_score", symbol |-> symbol,
                        candidates |-> candidates,
                        failed |-> (1..Len(candidates)) \ persisted,
                        created_ids |-> acc.created_ids]
    /\ UNCHANGED calculator_vars
    /\ UNCHANGED <<job_vars, ws_vars>>

ProcessScore ==
    \E symbol \in {"BTC"}, score \in ZoneScores, persisted \in SUBSET (1..2), sent \in {0, 1, 3} :
        process_score(symbol, score, persisted, sent)

NextManager ==
    \/ ProcessScore
    \/ Tick

SpecManager == Init /\ [][NextManager]_vars

(* ---------------------------------------------------------------------- *)
(* WebSocketManager and websocket_endpoint. The lock guards blocks that    *)
(* never suspend, so it is free whenever a coroutine runs; a step is the   *)
(* code up to the end of one send.                                         *)
(* ---------------------------------------------------------------------- *)

\* async def disconnect(self, client_id), applied to the two maps
Disconnect(conns, subs, client_id) ==
    [conns |-> conns \ {client_id},
     subs |-> [channel \in Channels |-> subs[channel] \ {client_id}]]

\* async def send_personal(self, client_id, message) on the two maps: nothing
\* for a client that is not connected; otherwise send_json returns (ok) or
\* raises, and the except clause disconnects the client
SendPersonal(conns, subs, client_id, ok) ==
    IF client_id \notin conns \/ ok THEN [conns |-> conns, subs |-> subs]
    ELSE Disconnect(conns, subs, client_id)

\* the message reached the client
Delivered(conns, client_id, ok) == client_id \in conns /\ ok

\* async def subscribe(self, client_id, channel)
subscribe(subs, client_id, channel) ==
    IF channel \notin Channels THEN subs
    ELSE [subs EXCEPT ![channel] = @ \cup {client_id}]

\* async def unsubscribe(self, client_id, channel)
unsubscribe(subs, client_id, channel) ==
    IF channel \notin Channels THEN subs
    ELSE [subs EXCEPT ![channel] = @ \ {client_id}]

\* websocket_endpoint up to its first receive_text: ws_manager.connect accepts
\* (or returns False when accept raises), registers the client and sends the
\* welcome message; connect returns True whether or not that send failed
Connect(client_id) ==
    /\ endpoints[client_id] = "closed"
    /\ \E accepted \in BOOLEAN, ok \in BOOLEAN :
          IF ~accepted
          THEN /\ ok
               /\ UNCHANGED <<active_connections, subscriptions, endpoints>>
          ELSE LET conns == active_connections \cup {client_id}
                   subs == [subscriptions EXCEPT !["all"] = @ \cup {client_id}]
                   after == SendPersonal(conns, subs, client_id, ok)
               IN /\ active_connections' = after.conns
                  /\ subscriptions' = after.subs
                  /\ endpoints' = [endpoints EXCEPT ![client_id] = "open"]
    /\ UNCHANGED <<broadcasting, broadcast_count>>
    /\ UNCHANGED outside_ws_vars

\* websocket_endpoint, lines 46-75: one message of the client is handled and
\* answered
Receive(client_id) ==
    /\ endpoints[client_id] = "open"
    /\ \E type \in {"subscribe", "unsubscribe", "ping"}, channel \in MessageChannels,
          ok \in BOOLEAN :
          LET subs == CASE type = "subscribe" ->
                             subscribe(subscriptions, client_id, channel)
                        [] type = "unsubscribe" ->
                             unsubscribe(subscriptions, client_id, channel)
                        [] OTHER -> subscriptions
              after == SendPersonal(active_connections, subs, client_id, ok)
          IN /\ type = "ping" => channel = "all"
             /\ active_connections' = after.conns
             /\ subscriptions' = after.subs
    /\ UNCHANGED <<endpoints, broadcasting, broadcast_count>>
    /\ UNCHANGED outside_ws_vars

\* websocket_endpoint, lines 80-85: receive_text raises and the endpoint
\* disconnects the client and ends
Close(client_id) ==
    /\ endpoints[client_id] = "open"
    /\ LET after == Disconnect(active_connections, subscriptions, client_id)
       IN /\ active_connections' = after.conns
          /\ subscriptions' = after.subs
    /\ endpoints' = [endpoints EXCEPT ![client_id] = "closed"]
    /\ UNCHANGED <<broadcasting, broadcast_count>>
    /\ UNCHANGED outside_ws_vars

\* broadcast(message, channel) up to its first send: client_ids = list(...);
\* with nobody on the channel of the update it goes on to "all" at once
Snapshot(b, subs) ==
    IF b.channel # "all" /\ subs[b.channel] = {}
    THEN [b EXCEPT !.channel = "all", !.pending = subs["all"]]
    ELSE [b EXCEPT !.pending = subs[b.channel]]

\* broadcast_score_update, broadcast_price_update, broadcast_alert: the
\* channel of the update, then "all"
NextChannel(channel) == IF channel = "all" THEN "done" ELSE "all"

\* a broadcast_* call begins
StartBroadcast(kind) ==
    /\ broadcasting.pending = {}
    /\ broadcast_count < MaxBroadcasts
    /\ broadcast_count' = broadcast_count + 1
    /\ broadcasting' = Snapshot([NoBroadcast EXCEPT !.kind = kind,
                                                    !.channel = ChannelOf(kind)],
                                subscriptions)
    /\ UNCHANGED <<active_connections, subscriptions, endpoints>>
    /\ UNCHANGED outside_ws_vars

\* the loop of broadcast: one send_personal ends; after the last client of a
\* channel the call goes on to the next channel, or returns
BroadcastSend(client_id) ==
    /\ client_id \in broadcasting.pending
    /\ \E ok \in BOOLEAN :
          LET after == SendPersonal(active_connections, subscriptions, client_id, ok)
              b == [broadcasting EXCEPT
                       !.pending = @ \ {client_id},
                       !.delivered[client_id] =
                           IF Delivered(active_connections, client_id, ok) THEN @ + 1 ELSE @]
          IN /\ active_connections' = after.conns
             /\ subscriptions' = after.subs
             /\ broadcasting' =
                    IF b.pending # {} \/ NextChannel(b.channel) = "done" THEN b
                    ELSE [b EXCEPT !.channel = NextChannel(b.channel),
                                   !.pending = after.subs[NextChannel(b.channel)]]
    /\ UNCHANGED <<endpoints, broadcast_count>>
    /\ UNCHANGED outside_ws_vars

ClientConnects == \E client_id \in Clients : Connect(client_id)
ClientMessage == \E client_id \in Clients : Receive(client_id)
ClientCloses == \E client_id \in Clients : Close(client_id)
Broadcast == \E kind \in {"score_update", "price_update", "alert"} : StartBroadcast(kind)
BroadcastNext == \E client_id \in Clients : BroadcastSend(client_id)

NextWebSocket ==
    \/ ClientConnects
    \/ ClientMessage
    \/ ClientCloses
    \/ Broadcast
    \/ BroadcastNext

SpecWebSocket == Init /\ [][NextWebSocket]_vars

(* ---------------------------------------------------------------------- *)
(* BaseJob.run and CryptoPulseScheduler                                    *)
(* ---------------------------------------------------------------------- *)
Runners == 1..MaxRunners

\* the tasks that are in no call
FreeRunners == {r \in Runners : runners[r].pc = "idle"}
FreeRunner == CHOOSE r \in FreeRunners : \A q \in FreeRunners : r <= q

\* the runs that passed the guard of run() so far
RECURSIVE TotalRuns(_)
TotalRuns(i) == IF i = 0 THEN 0 ELSE instances[i].setups + TotalRuns(i - 1)
RunsSoFar == TotalRuns(Len(instances))

SetRunner(r, rec) == [runners EXCEPT ![r] = rec]
SetJob(i, rec) == [instances EXCEPT ![i] = rec]

\* lines 203-204: if self._is_running
RunGuard(job) == job.is_running

\* BaseJob.run up to its first await, lines 197-220, called by task r on job i;
\* a run that finds the job running returns a failed result at once
RunEnter(r, kind, i) ==
    IF RunGuard(instances[i])
    THEN UNCHANGED <<instances, runners>>
    ELSE /\ instances' = SetJob(i, [instances[i] EXCEPT !.is_running = TRUE,
                                                       !.should_stop = FALSE,
                                                       !.setups = @ + 1])
         /\ runners' = SetRunner(r, [IdleRunner EXCEPT !.kind = kind, !.pc = "setup",
                                                       !.job = i])

\* CryptoPulseScheduler._run_job up to the first await of run, lines 309-321
run_job(r, kind, job_id) ==
    IF job_id \notin DOMAIN jobs THEN UNCHANGED <<instances, runners>>
    ELSE IF instances[jobs[job_id]].is_running
    THEN UNCHANGED <<instances, runners>>
    ELSE RunEnter(r, kind, jobs[job_id])

\* a finally clause that runs cleanup only when execute was reached
Finally_SkipsCleanupAfterSetup(job, me) ==
    [job EXCEPT !.is_running = FALSE, !.cleanups = IF me.executes > 0 THEN @ + 1 ELSE @]

\* lines 260-267: the finally clause: cleanup, then _is_running = False
Finally(job, me) ==
    [job EXCEPT !.is_running = FALSE, !.cleanups = @ + 1]

\* lines 260-295: the finally clause, the result, the metrics and the history;
\* then the callback is awaited
Conclude(r, job, me) ==
    LET success == me.error = NoError IN
    /\ instances' = SetJob(me.job,
           [Finally(job, me) EXCEPT !.total_runs = @ + 1,
                                    !.successful_runs = IF success THEN @ + 1 ELSE @,
                                    !.failed_runs = IF success THEN @ ELSE @ + 1,
                                    !.history = @ + 1])
    /\ runners' = SetRunner(r, [me EXCEPT !.pc = "callback"])
    /\ UNCHANGED <<total_executions, total_errors>>

\* an exception leaves run through the finally clause; _run_job catches an
\* Exception (lines 331-334) and lets a CancelledError pass
Abort(r, job, me, outcome) ==
    /\ instances' = SetJob(me.job, Finally(job, me))
    /\ runners' = SetRunner(r, IdleRunner)
    /\ total_errors' = IF outcome = "raised" /\ me.kind # "direct"
                       THEN total_errors + 1 ELSE total_errors
    /\ UNCHANGED total_executions

\* a retry loop that tries max_retries times
Attempts_NoExtra(job) == job.max_retries

\* line 223: range(self.config.max_retries + 1)
Attempts(job) == job.max_retries + 1

\* the first or the next attempt: execute is awaited under wait_for
BeginAttempt(r, job, me, attempt) ==
    /\ instances' = SetJob(me.job, [job EXCEPT !.executing = @ + 1])
    /\ runners' = SetRunner(r, [me EXCEPT !.pc = "execute", !.attempt = attempt,
                                          !.retry_count = attempt,
                                          !.executes = @ + 1])
    /\ UNCHANGED <<total_executions, total_errors>>

\* await self.setup() is over
Setup(r) ==
    LET me == runners[r]
        job == instances[me.job]
    IN
    /\ me.pc = "setup"
    /\ \/ IF Attempts(job) > 0 THEN BeginAttempt(r, job, me, 0) ELSE Conclude(r, job, me)
       \/ Abort(r, job, me, "raised")
       \/ me.cancel /\ Abort(r, job, me, "cancelled")
    /\ UNCHANGED <<state, scheduler, ctl, jobs>>
    /\ UNCHANGED outside_job_vars

\* an attempt that failed with error e: wait for the next one, or give up
\* (lines 254-258); the error is read only when the attempt was the last one
AfterFailure(r, job, me, e) ==
    IF me.attempt + 1 < Attempts(job)
    THEN /\ instances' = SetJob(me.job, job)
         /\ runners' = SetRunner(r, [me EXCEPT !.pc = "sleep"])
         /\ UNCHANGED <<total_executions, total_errors>>
    ELSE Conclude(r, job, [me EXCEPT !.error = e])

\* await asyncio.wait_for(self.execute(), ...) is over, lines 226-252
Execute(r) ==
    LET me == runners[r]
        job == [instances[me.job] EXCEPT !.executing = @ - 1]
    IN
    /\ me.pc = "execute"
    /\ \/ Conclude(r, job, [me EXCEPT !.error = NoError])
       \/ \E e \in {ERROR, TIMEOUT} :
             AfterFailure(r, job, [me EXCEPT !.failures = @ + 1], e)
       \/ /\ me.cancel
          /\ Conclude(r, job, [me EXCEPT !.error = CANCELLED, !.cancel = FALSE,
                                           !.failures = @ + 1])
    /\ UNCHANGED <<state, scheduler, ctl, jobs>>
    /\ UNCHANGED outside_job_vars

\* await asyncio.sleep(delay) is over, line 258
Sleep(r) ==
    LET me == runners[r]
        job == instances[me.job]
    IN
    /\ me.pc = "sleep"
    /\ \/ BeginAttempt(r, job, me, me.attempt + 1)
       \/ me.cancel /\ Abort(r, job, me, "cancelled")
    /\ UNCHANGED <<state, scheduler, ctl, jobs>>
    /\ UNCHANGED outside_job_vars

\* await self.on_success(result) / on_failure(result) is over: run returns,
\* and _run_job counts the execution (lines 323-329)
Callback(r) ==
    LET me == runners[r] IN
    /\ me.pc = "callback"
    /\ runners' = SetRunner(r, IdleRunner)
    /\ \/ /\ total_executions' = IF me.kind # "direct" THEN total_executions + 1
                                 ELSE total_executions
          /\ total_errors' = IF me.kind # "direct" /\ me.error # NoError
                             THEN total_errors + 1 ELSE total_errors
       \/ /\ me.cancel
          /\ UNCHANGED <<total_executions, total_errors>>
    /\ UNCHANGED <<state, scheduler, ctl, jobs, instances>>
    /\ UNCHANGED outside_job_vars

\* a caller builds a job of its own
CreateJob ==
    /\ Len(instances) < MaxRegistrations
    /\ instances' = Append(instances, BaseJob_init(FAILING_JOB))
    /\ UNCHANGED <<state, scheduler, ctl, jobs, runners,
                   total_executions, total_errors>>
    /\ UNCHANGED outside_job_vars

\* a caller that holds a job awaits job.run() itself
DirectRun ==
    /\ FreeRunners # {}
    /\ RunsSoFar < MaxRuns
    /\ \E i \in 1..Len(instances) : RunEnter(FreeRunner, "direct", i)
    /\ UNCHANGED <<state, scheduler, ctl, jobs, total_executions, total_errors>>
    /\ UNCHANGED outside_job_vars

\* task.cancel() on a task that is inside run()
CancelTask ==
    /\ \E r \in Runners :
          /\ runners[r].pc # "idle" /\ ~runners[r].cancel
          /\ runners' = SetRunner(r, [runners[r] EXCEPT !.cancel = TRUE])
    /\ UNCHANGED <<state, scheduler, ctl, jobs, instances,
                   total_executions, total_errors>>
    /\ UNCHANGED outside_job_vars

\* async def run_job_now(self, job_id)
run_job_now(job_id) ==
    /\ FreeRunners # {}
    /\ RunsSoFar < MaxRuns
    /\ run_job(FreeRunner, "caller", job_id)
    /\ UNCHANGED <<state, scheduler, ctl, jobs, total_executions, total_errors>>
    /\ UNCHANGED outside_job_vars

\* the APScheduler trigger of a job fires: _run_job(job_id) becomes a task of
\* the executor, one at a time per job (max_instances = 1)
FireTrigger(job_id) ==
    /\ scheduler = "running"
    /\ \A r \in Runners : ~(runners[r].kind = "executor" /\ runners[r].pc # "idle"
                            /\ instances[runners[r].job].job_id = job_id)
    /\ FreeRunners # {}
    /\ RunsSoFar < MaxRuns
    /\ run_job(FreeRunner, "executor", job_id)
    /\ UNCHANGED <<state, scheduler, ctl, jobs, total_executions, total_errors>>
    /\ UNCHANGED outside_job_vars

\* _run_initial_jobs after its startup delay, lines 232-248
InitialJobs(r) ==
    /\ runners[r].pc = "startup_delay"
    /\ \E job_id \in JobIds :
          IF job_id \in DOMAIN jobs /\ state = RUNNING
             /\ ~instances[jobs[job_id]].is_running
          THEN RunEnter(r, "caller", jobs[job_id])
          ELSE /\ runners' = SetRunner(r, IdleRunner)
               /\ UNCHANGED instances
    /\ UNCHANGED <<state, scheduler, ctl, jobs, total_executions, total_errors>>
    /\ UNCHANGED outside_job_vars


\* _register_jobs: a new job object per enabled job
register_jobs ==
    /\ instances' = Append(instances, BaseJob_init(HEALTH_CHECK))
    /\ jobs' = [id \in JobIds |-> Len(instances) + 1]

\* async def initialize(self)
initialize ==
    /\ ctl = "idle"
    /\ IF state # STOPPED
       THEN UNCHANGED <<state, scheduler, jobs, instances>>
       ELSE /\ Len(instances) < MaxRegistrations
            /\ state' = STARTING
            /\ scheduler' = "stopped"
            /\ register_jobs
    /\ UNCHANGED <<ctl, runners, total_executions, total_errors>>
    /\ UNCHANGED outside_job_vars

\* async def start(self), up to the end of the inner initialize()
start ==
    /\ ctl = "idle"
    /\ IF state = RUNNING
       THEN UNCHANGED <<state, scheduler, ctl, jobs, instances>>
       ELSE IF state = STOPPED
       THEN /\ Len(instances) < MaxRegistrations
            /\ FreeRunners # {}
            /\ state' = STARTING
            /\ scheduler' = "stopped"
            /\ register_jobs
            /\ ctl' = "start"
       ELSE IF scheduler # "stopped"
       THEN \* self._scheduler.start() raises SchedulerAlreadyRunningError
            UNCHANGED <<state, scheduler, ctl, jobs, instances>>
       ELSE /\ FreeRunners # {}
            /\ ctl' = "start"
            /\ UNCHANGED <<state, scheduler, jobs, instances>>
    /\ UNCHANGED <<runners, total_executions, total_errors>>
    /\ UNCHANGED outside_job_vars

\* start, lines 187-228: the jobs are scheduled, the state is RUNNING and the
\* task of the initial jobs is created
start_scheduled ==
    /\ ctl = "start"
    /\ scheduler' = "running"
    /\ state' = RUNNING
    /\ runners' = SetRunner(FreeRunner, [IdleRunner EXCEPT !.kind = "caller",
                                                           !.pc = "startup_delay"])
    /\ ctl' = "idle"
    /\ UNCHANGED <<jobs, instances, total_executions, total_errors>>
    /\ UNCHANGED outside_job_vars

\* a stop that also accepts a paused scheduler
StopGuard_AlsoPaused == state \in {RUNNING, PAUSED}

\* line 257: if self._state != SchedulerState.RUNNING: return
StopGuard == state = RUNNING

\* async def stop(self), lines 257-261
stop ==
    /\ ctl = "idle"
    /\ IF ~StopGuard
       THEN UNCHANGED <<state, ctl>>
       ELSE state' = STOPPING /\ ctl' = "stop"
    /\ UNCHANGED <<scheduler, jobs, instances, runners, total_executions,
                   total_errors>>
    /\ UNCHANGED outside_job_vars

\* stop, lines 264-275: shutdown(wait=True) of the asyncio executor cancels the
\* tasks it started and waits for none; job.stop() sets _should_stop
stop_shutdown ==
    /\ ctl = "stop"
    /\ scheduler' = "stopped"
    /\ runners' = [r \in Runners |->
                      IF runners[r].kind = "executor" /\ runners[r].pc # "idle"
                      THEN [runners[r] EXCEPT !.cancel = TRUE] ELSE runners[r]]
    /\ instances' = [i \in 1..Len(instances) |->
                        IF (\E id \in DOMAIN jobs : jobs[id] = i) /\ instances[i].is_running
                        THEN [instances[i] EXCEPT !.should_stop = TRUE] ELSE instances[i]]
    /\ state' = STOPPED
    /\ ctl' = "idle"
    /\ UNCHANGED <<jobs, total_executions, total_errors>>
    /\ UNCHANGED outside_job_vars

\* async def pause(self)
pause ==
    /\ ctl = "idle"
    /\ IF state # RUNNING
       THEN UNCHANGED <<state, scheduler>>
       ELSE scheduler' = "paused" /\ state' = PAUSED
    /\ UNCHANGED <<ctl, jobs, instances, runners, total_executions, total_errors>>
    /\ UNCHANGED outside_job_vars

\* async def resume(self)
resume ==
    /\ ctl = "idle"
    /\ IF state # PAUSED
       THEN UNCHANGED <<state, scheduler>>
       ELSE scheduler' = "running" /\ state' = RUNNING
    /\ UNCHANGED <<ctl, jobs, instances, runners, total_executions, total_errors>>
    /\ UNCHANGED outside_job_vars

JobSetup == \E r \in Runners : ctl = "idle" /\ Setup(r)
JobExecute == \E r \in Runners : ctl = "idle" /\ Execute(r)
JobSleep == \E r \in Runners : ctl = "idle" /\ Sleep(r)
JobCallback == \E r \in Runners : ctl = "idle" /\ Callback(r)
RunJobNow == \E job_id \in JobIds \cup {"unknown"} : ctl = "idle" /\ run_job_now(job_id)
TriggerJob == \E job_id \in JobIds : ctl = "idle" /\ FireTrigger(job_id)
RunInitialJobs == \E r \in Runners : ctl = "idle" /\ InitialJobs(r)

\* jobs that callers build and run themselves
NextJob ==
    \/ CreateJob
    \/ DirectRun
    \/ CancelTask
    \/ JobSetup
    \/ JobExecute
    \/ JobSleep
    \/ JobCallback

SpecJob == Init /\ [][NextJob]_vars

\* the scheduler and the jobs it registers
NextScheduler ==
    \/ initialize
    \/ start
    \/ start_scheduled
    \/ stop
    \/ stop_shutdown
    \/ pause
    \/ resume
    \/ TriggerJob
    \/ RunJobNow
    \/ RunInitialJobs
    \/ JobSetup
    \/ JobExecute
    \/ JobSleep
    \/ JobCallback

SpecScheduler == Init /\ [][NextScheduler]_vars

\* the scheduler with the runs it starts itself: the control calls, the
\* startup run of the initial jobs and the steps of those runs
NextControl ==
    \/ initialize
    \/ start
    \/ start_scheduled
    \/ stop
    \/ stop_shutdown
    \/ pause
    \/ resume
    \/ RunInitialJobs
    \/ JobSetup
    \/ JobExecute
    \/ JobSleep
    \/ JobCallback

SpecControl == Init /\ [][NextControl]_vars

(* ---------------------------------------------------------------------- *)
(* check_score statement by statement, called by concurrent asyncio tasks  *)
(* (AlertManager.process_score, alert_manager.py lines 69-81). All tasks   *)
(* run on one event loop: a task keeps the loop until it reaches an await  *)
(* that suspends it, and check_score holds no await and takes no lock.     *)
(* ---------------------------------------------------------------------- *)

\* the positions of a task inside the body of check_score
InCheckScore == {"l165", "l166", "zone", "zone_emit", "delta", "delta_emit", "l265"}

\* every position a suspension point, as under pre-emptive threads
AwaitPoints_Everywhere == {"idle", "persist"} \cup InCheckScore

\* the positions at which a task is suspended in an await: before the call
\* (run_check_cycle awaits the repositories) and in _create_and_send
AwaitPoints == {"idle", "persist"}

\* the event loop after a task moved to position pc
LoopAfter(i, pc) == IF pc \in AwaitPoints THEN NoTask ELSE i

\* the event loop lets task i take a step
Scheduled(i) == running = i \/ (running = NoTask /\ tasks[i].pc \in AwaitPoints)

TaskStep(i, rec) ==
    /\ tasks' = [tasks EXCEPT ![i] = rec]
    /\ running' = LoopAfter(i, rec.pc)

\* lines 160-162: the call starts, self._check_count += 1, alerts = []
Call(i, symbol, current_score) ==
    /\ tasks[i].pc = "idle" /\ Scheduled(i)
    /\ check_count < MaxChecks
    /\ check_count' = check_count + 1
    /\ TaskStep(i, [IdleTask EXCEPT !.pc = "l165", !.symbol = symbol,
                                    !.score = current_score, !.at = now,
                                    !.cd0 = cooldowns, !.ls0 = last_scores])
    /\ UNCHANGED calculator_vars
    /\ UNCHANGED service_vars
    /\ UNCHANGED <<now, cooldowns, last_scores, alert_count, call, result>>

\* line 165: previous_score = self._last_scores.get(symbol, current_score)
L165(i) ==
    /\ tasks[i].pc = "l165" /\ Scheduled(i)
    /\ TaskStep(i, [tasks[i] EXCEPT !.pc = "l166",
          !.previous = PreviousScore(last_scores, tasks[i].symbol, tasks[i].score)])
    /\ UNCHANGED calculator_vars
    /\ UNCHANGED service_vars
    /\ UNCHANGED <<now, cooldowns, last_scores, check_count, alert_count, call, result>>

\* line 166: self._last_scores[symbol] = current_score
L166(i) ==
    /\ tasks[i].pc = "l166" /\ Scheduled(i)
    /\ last_scores' = [s \in DOMAIN last_scores \cup {tasks[i].symbol} |->
                          IF s = tasks[i].symbol THEN tasks[i].score ELSE last_scores[s]]
    /\ TaskStep(i, [tasks[i] EXCEPT !.pc = "zone"])
    /\ UNCHANGED calculator_vars
    /\ UNCHANGED service_vars
    /\ UNCHANGED <<now, cooldowns, check_count, alert_count, call, result>>

\* lines 169-170, 191-193: the conditions of the zone alerts
ZoneCheck(i) ==
    /\ tasks[i].pc = "zone" /\ Scheduled(i)
    /\ LET t == tasks[i]
           zone == ZoneAlerts(cooldowns, now, t.symbol, t.score, t.previous)
       IN TaskStep(i, [t EXCEPT !.pending = zone,
                                !.pc = IF zone = <<>> THEN "delta" ELSE "zone_emit"])
    /\ UNCHANGED calculator_vars
    /\ UNCHANGED service_vars
    /\ UNCHANGED <<now, cooldowns, last_scores, check_count, alert_count, call, result>>

\* lines 171-188, 194-214: alerts.append(...), self._set_cooldown(...)
ZoneEmit(i) ==
    /\ tasks[i].pc = "zone_emit" /\ Scheduled(i)
    /\ cooldowns' = SetCooldowns(cooldowns, now, tasks[i].pending)
    /\ TaskStep(i, [tasks[i] EXCEPT !.alerts = @ \o tasks[i].pending,
                                    !.pending = <<>>, !.pc = "delta"])
    /\ UNCHANGED calculator_vars
    /\ UNCHANGED service_vars
    /\ UNCHANGED <<now, last_scores, check_count, alert_count, call, result>>

\* lines 217-219, 242-243: the conditions of the delta alerts
DeltaCheck(i) ==
    /\ tasks[i].pc = "delta" /\ Scheduled(i)
    /\ LET t == tasks[i]
           delta == DeltaAlerts(cooldowns, now, t.symbol, t.score, t.previous)
       IN TaskStep(i, [t EXCEPT !.pending = delta,
                                !.pc = IF delta = <<>> THEN "l265" ELSE "delta_emit"])
    /\ UNCHANGED calculator_vars
    /\ UNCHANGED service_vars
    /\ UNCHANGED <<now, cooldowns, last_scores, check_count, alert_count, call, result>>

\* lines 220-239, 244-263: alerts.append(...), self._set_cooldown(...)
DeltaEmit(i) ==
    /\ tasks[i].pc = "delta_emit" /\ Scheduled(i)
    /\ cooldowns' = SetCooldowns(cooldowns, now, tasks[i].pending)
    /\ TaskStep(i, [tasks[i] EXCEPT !.alerts = @ \o tasks[i].pending,
                                    !.pending = <<>>, !.pc = "l265"])
    /\ UNCHANGED calculator_vars
    /\ UNCHANGED service_vars
    /\ UNCHANGED <<now, last_scores, check_count, alert_count, call, result>>

\* lines 265-266: self._alert_count += len(alerts); return alerts
Return(i) ==
    /\ tasks[i].pc = "l265" /\ Scheduled(i)
    /\ alert_count' = alert_count + Len(tasks[i].alerts)
    /\ TaskStep(i, [tasks[i] EXCEPT !.pc = "persist"])
    /\ UNCHANGED calculator_vars
    /\ UNCHANGED service_vars
    /\ UNCHANGED <<now, cooldowns, last_scores, check_count, call, result>>

\* alert_manager.py lines 78-83: the candidates are persisted and sent, the call is over
Persist(i) ==
    /\ tasks[i].pc = "persist" /\ Scheduled(i)
    /\ TaskStep(i, IdleTask)
    /\ UNCHANGED calculator_vars
    /\ UNCHANGED service_vars
    /\ UNCHANGED <<now, cooldowns, last_scores, check_count, alert_count, call, result>>

\* the clock moves on while the event loop is between two tasks
AsyncTick ==
    /\ running = NoTask
    /\ \E t \in ClockReadings : t > now /\ now' = t
    /\ UNCHANGED calculator_vars
    /\ UNCHANGED service_vars
    /\ UNCHANGED <<cooldowns, last_scores, check_count, alert_count, call, result,
                   tasks, running>>

AsyncCall == \E i \in Tasks, symbol \in Symbols, current_score \in Scores :
                Call(i, symbol, current_score)
AsyncL165 == \E i \in Tasks : L165(i)
AsyncL166 == \E i \in Tasks : L166(i)
AsyncZoneCheck == \E i \in Tasks : ZoneCheck(i)
AsyncZoneEmit == \E i \in Tasks : ZoneEmit(i)
AsyncDeltaCheck == \E i \in Tasks : DeltaCheck(i)
AsyncDeltaEmit == \E i \in Tasks : DeltaEmit(i)
AsyncReturn == \E i \in Tasks : Return(i)
AsyncPersist == \E i \in Tasks : Persist(i)

NextAsync ==
    \/ AsyncCall
    \/ AsyncL165
    \/ AsyncL166
    \/ AsyncZoneCheck
    \/ AsyncZoneEmit
    \/ AsyncDeltaCheck
    \/ AsyncDeltaEmit
    \/ AsyncReturn
    \/ AsyncPersist
    \/ AsyncTick

SpecAsync == Init /\ [][NextAsync]_vars

(* ---------------------------------------------------------------------- *)
(* Properties                                                              *)
(* ---------------------------------------------------------------------- *)

\* number of candidates of a kind in a returned list
CountKind(res, kind) == Cardinality({i \in 1..Len(res) : res[i].alert_type = kind})
HasKind(res, kind) == CountKind(res, kind) > 0
KindsOf(res) == [i \in 1..Len(res) |-> res[i].alert_type]

\* the cooldown durations the specification states, in minutes
CooldownMinutes(kind) ==
    CASE kind = SCORE_HIGH -> 60
      [] kind = SCORE_CRITICAL -> 30
      [] kind = SCORE_SPIKE -> 30
      [] kind = SCORE_DROP -> 60
      [] kind = WHALE_LARGE_TX -> 5
      [] kind = PRICE_SURGE -> 60
      [] kind = PRICE_DUMP -> 60
      [] kind = VOLUME_SPIKE -> 60

\* (kind, symbol) is in cooldown in the current state
InCooldown(kind, symbol) ==
    /\ <<kind, symbol>> \in DOMAIN cooldowns
    /\ now < cooldowns[<<kind, symbol>>] + CooldownMinutes(kind)

\* this step is a check_score call / a check_whale_transaction call
IsCheckScoreStep == check_count' = check_count + 1
IsWhaleStep == call'.op = "check_whale_transaction" /\ now' = now
IsClearStep == call'.op = "clear_cooldowns" /\ now' = now

\* the symbol has a last observed score, and it is below the high zone
LastBelowHigh(symbol) == symbol \in DOMAIN last_scores /\ last_scores[symbol] < 70

\* delta of a check_score call: current - last, 0 on a cold start
DeltaOf(symbol, current) ==
    IF symbol \in DOMAIN last_scores THEN current - last_scores[symbol] ELSE 0

\* C1: a check_score call returns exactly one ScoreHigh candidate when
\* 70 <= current < 85, the last observed score is < 70 and ScoreHigh is not in
\* cooldown for the symbol, and no ScoreHigh candidate in every other case.
C1_ScoreHighOnlyOnZoneEntry ==
    [][IsCheckScoreStep =>
        LET s == call'.symbol
            current == call'.value
        IN CountKind(result', SCORE_HIGH) =
             IF /\ 70 <= current /\ current < 85
                /\ LastBelowHigh(s)
                /\ ~InCooldown(SCORE_HIGH, s)
             THEN 1 ELSE 0]_vars

\* C1 witness: a zone entry (last 69 or 50, current 70) that returned ScoreHigh
C1_Witness ==
    /\ call.op = "check_score"
    /\ call.previous < 70 /\ call.value >= 70 /\ call.value < 85
    /\ CountKind(result, SCORE_HIGH) = 1

\* C2: for every current >= 85 a check_score call returns no ScoreHigh; it
\* returns exactly one ScoreCritical of severity critical when ScoreCritical is
\* not in cooldown for the symbol, whatever the last score, and no zone alert at
\* all when it is in cooldown.
C2_CriticalOverridesHigh ==
    [][(IsCheckScoreStep /\ call'.value >= 85) =>
        LET s == call'.symbol IN
        /\ CountKind(result', SCORE_HIGH) = 0
        /\ IF InCooldown(SCORE_CRITICAL, s)
           THEN CountKind(result', SCORE_CRITICAL) = 0
           ELSE /\ CountKind(result', SCORE_CRITICAL) = 1
                /\ \A i \in 1..Len(result') :
                     result'[i].alert_type = SCORE_CRITICAL
                        => result'[i].severity = CRITICAL /\ result'[i].symbol = s]_vars

\* C2 witness: a critical candidate returned for a symbol that was already in
\* the critical zone at its previous check
C2_Witness ==
    /\ call.op = "check_score" /\ call.value >= 85 /\ call.previous >= 85
    /\ check_count >= 2 /\ DOMAIN last_scores = {call.symbol}
    /\ CountKind(result, SCORE_CRITICAL) = 1
    /\ CountKind(result, SCORE_HIGH) = 0

\* C3: a check_score call returns ScoreSpike iff delta >= 15 and ScoreSpike is
\* not in cooldown, ScoreDrop iff delta <= -15 and ScoreDrop is not in cooldown,
\* never both, whatever happened to the zone alert of the same call; a zone
\* entry with delta >= 15 and nothing in cooldown returns exactly ScoreHigh
\* followed by ScoreSpike.
C3_DeltaIndependentOfZone ==
    [][IsCheckScoreStep =>
        LET s == call'.symbol
            current == call'.value
            delta == DeltaOf(s, current)
        IN
        /\ CountKind(result', SCORE_SPIKE) =
             IF delta >= 15 /\ ~InCooldown(SCORE_SPIKE, s) THEN 1 ELSE 0
        /\ CountKind(result', SCORE_DROP) =
             IF delta <= -15 /\ ~InCooldown(SCORE_DROP, s) THEN 1 ELSE 0
        /\ ~(HasKind(result', SCORE_SPIKE) /\ HasKind(result', SCORE_DROP))
        /\ (/\ 70 <= current /\ current < 85 /\ LastBelowHigh(s) /\ delta >= 15
            /\ ~InCooldown(SCORE_HIGH, s) /\ ~InCooldown(SCORE_SPIKE, s))
           => KindsOf(result') = <<SCORE_HIGH, SCORE_SPIKE>>]_vars

\* C3 witness: last 50, current 70 returned ScoreHigh followed by ScoreSpike
C3_Witness ==
    /\ call.op = "check_score" /\ call.previous = 50 /\ call.value = 70
    /\ KindsOf(result) = <<SCORE_HIGH, SCORE_SPIKE>>

\* the trigger condition of a score alert kind, cooldown aside
Trigger(kind, symbol, current) ==
    CASE kind = SCORE_CRITICAL -> current >= 85
      [] kind = SCORE_HIGH -> 70 <= current /\ current < 85 /\ LastBelowHigh(symbol)
      [] kind = SCORE_SPIKE -> DeltaOf(symbol, current) >= 15
      [] kind = SCORE_DROP -> DeltaOf(symbol, current) <= -15

ScoreKinds == {SCORE_HIGH, SCORE_CRITICAL, SCORE_SPIKE, SCORE_DROP}

\* a candidate of the kind for the symbol is in the returned list
Emitted(res, kind, symbol) ==
    \E i \in 1..Len(res) : res[i].alert_type = kind /\ res[i].symbol = symbol

\* C4: between two resets, a check_score call emits a candidate of a kind only
\* when at least the kind's cooldown has passed since the last candidate of that
\* kind for the symbol (the map entry, which every emission sets to its time),
\* at most one per call, and once the cooldown has expired a call whose trigger
\* holds emits the kind again.
C4_CooldownSuppression ==
    [][IsCheckScoreStep =>
        LET s == call'.symbol
            current == call'.value
        IN \A kind \in ScoreKinds :
            LET key == <<kind, s>> IN
            /\ CountKind(result', kind) <= 1
            /\ HasKind(result', kind) => key \in DOMAIN cooldowns' /\ cooldowns'[key] = now
            /\ (HasKind(result', kind) /\ key \in DOMAIN cooldowns)
                 => now >= cooldowns[key] + CooldownMinutes(kind)
            /\ (/\ key \in DOMAIN cooldowns
                /\ now >= cooldowns[key] + CooldownMinutes(kind)
                /\ Trigger(kind, s, current))
                 => HasKind(result', kind)]_vars

\* C4 witness: three checks of one symbol, two critical candidates in all, the
\* second of them returned by the third check once 30 minutes had passed
C4_Witness ==
    /\ call.op = "check_score" /\ call.value >= 85 /\ call.previous >= 85
    /\ check_count = 3 /\ alert_count = 2 /\ now >= 30
    /\ DOMAIN last_scores = {call.symbol}
    /\ DOMAIN cooldowns = {<<SCORE_CRITICAL, call.symbol>>}
    /\ KindsOf(result) = <<SCORE_CRITICAL>>

\* C6: a check_score or check_whale_transaction call writes the cooldown entry
\* of (kind, symbol) exactly when it returns a candidate of that kind for that
\* symbol, the entry then suppresses for the kind's duration (60 min high and
\* drop, 30 min critical and spike), and every other entry is left as it was.
C6_CooldownWrittenOnEmission ==
    [][(IsCheckScoreStep \/ IsWhaleStep) =>
        \A kind \in AlertType, s \in Symbols :
            LET key == <<kind, s>> IN
            IF Emitted(result', kind, s)
            THEN /\ key \in DOMAIN cooldowns'
                 /\ \A d \in {0, CooldownMinutes(kind) - 1, CooldownMinutes(kind)} :
                      is_in_cooldown(cooldowns', now + d, kind, s) <=> d < CooldownMinutes(kind)
            ELSE /\ key \in DOMAIN cooldowns' <=> key \in DOMAIN cooldowns
                 /\ key \in DOMAIN cooldowns => cooldowns'[key] = cooldowns[key]]_vars

\* C6 witness: a score_high candidate was returned and its entry written while
\* an older entry of another kind is still in the map
C6_Witness ==
    /\ call.op = "check_score" /\ Emitted(result, SCORE_HIGH, call.symbol)
    /\ cooldowns[<<SCORE_HIGH, call.symbol>>] = now
    /\ \E key \in DOMAIN cooldowns : cooldowns[key] < now

\* C7: the first check_score call for a symbol returns no spike, no drop and
\* no high candidate; it returns at most a critical one, and only for
\* current >= 85. The score is recorded as the symbol's last score.
C7_ColdStart ==
    [][(IsCheckScoreStep /\ call'.symbol \notin DOMAIN last_scores) =>
        /\ ~HasKind(result', SCORE_SPIKE)
        /\ ~HasKind(result', SCORE_DROP)
        /\ ~HasKind(result', SCORE_HIGH)
        /\ \A i \in 1..Len(result') : result'[i].alert_type = SCORE_CRITICAL
        /\ result' # <<>> => call'.value >= 85
        /\ last_scores'[call'.symbol] = call'.value]_vars

\* C7 witness: the very first call, score 85, returned the critical candidate alone
C7_Witness ==
    /\ call.op = "check_score" /\ check_count = 1 /\ call.value = 85
    /\ KindsOf(result) = <<SCORE_CRITICAL>>

\* C8 as claimed: after the reset operation both maps are empty
C8_ResetClearsAllState ==
    call.op = "clear_cooldowns" => cooldowns = <<>> /\ last_scores = <<>>

\* C8 amended: clear_cooldowns empties the cooldown map only; the last scores
\* and the counters are left as they were (no kind is in cooldown afterwards,
\* but the next check_score of a known symbol is not a cold start).
C8_ClearCooldownsOnly ==
    [][IsClearStep =>
        /\ cooldowns' = <<>>
        /\ last_scores' = last_scores
        /\ check_count' = check_count /\ alert_count' = alert_count]_vars

\* C8 witness: cleared after alerts were emitted, last scores still there
C8_Witness ==
    /\ call.op = "clear_cooldowns" /\ cooldowns = <<>>
    /\ alert_count > 0 /\ last_scores # <<>>

\* the severity tier the specification states for an amount
TierOf(amount) ==
    IF amount >= 50000000 THEN CRITICAL
    ELSE IF amount >= 20000000 THEN HIGH
    ELSE IF amount >= 10000000 THEN MEDIUM
    ELSE LOW

\* C9: check_whale_transaction returns none below 5,000,000; otherwise, when
\* whale_large_tx is not in cooldown for the symbol, one candidate whose
\* severity is low in [5M,10M), medium in [10M,20M), high in [20M,50M) and
\* critical from 50M on.
C9_WhaleTiering ==
    [][IsWhaleStep =>
        LET s == call'.symbol
            amount == call'.value
        IN
        /\ amount < 5000000 => result' = <<>>
        /\ (amount >= 5000000 /\ ~InCooldown(WHALE_LARGE_TX, s))
             => /\ Len(result') = 1
                /\ result'[1].alert_type = WHALE_LARGE_TX
                /\ result'[1].symbol = s
                /\ result'[1].severity = TierOf(amount)]_vars

\* C9 witness: 10,000,000 returned a medium candidate
C9_Witness ==
    /\ call.op = "check_whale_transaction" /\ call.value = 10000000
    /\ Len(result) = 1 /\ result[1].severity = MEDIUM

\* C10: while whale_large_tx is in cooldown for a symbol (5 minutes from the
\* last candidate) check_whale_transaction returns none for it whatever the
\* amount; a below-threshold transaction writes no cooldown; the outcome for a
\* symbol depends on that symbol's entry only and no other symbol's entry changes.
C10_WhaleCoalescedPerSymbol ==
    [][IsWhaleStep =>
        LET s == call'.symbol
            amount == call'.value
        IN
        /\ InCooldown(WHALE_LARGE_TX, s) => result' = <<>> /\ cooldowns' = cooldowns
        /\ amount < 5000000 => cooldowns' = cooldowns
        /\ result' # <<>>
              <=> (amount >= 5000000 /\ ~InCooldown(WHALE_LARGE_TX, s))
        /\ \A key \in DOMAIN cooldowns :
              key[2] # s => key \in DOMAIN cooldowns' /\ cooldowns'[key] = cooldowns[key]
        /\ \A key \in DOMAIN cooldowns' : key[2] # s => key \in DOMAIN cooldowns]_vars

\* C10 witness: a 50,000,000 transaction was coalesced into the running
\* cooldown of its symbol while the other symbol has no whale entry
C10_Witness ==
    /\ call.op = "check_whale_transaction" /\ call.value = 50000000
    /\ result = <<>>
    /\ <<WHALE_LARGE_TX, call.symbol>> \in DOMAIN cooldowns
    /\ now < cooldowns[<<WHALE_LARGE_TX, call.symbol>>] + 5
    /\ \A s \in Symbols \ {call.symbol} : <<WHALE_LARGE_TX, s>> \notin DOMAIN cooldowns

IsPriceStep == call'.op = "check_price_change" /\ now' = now
IsVolumeStep == call'.op = "check_volume_spike" /\ now' = now

\* C11: check_price_change returns a price_surge candidate exactly when the
\* change is at least 10 percent and price_surge is not in cooldown for the
\* symbol, a price_dump candidate exactly when the change is at most -10 percent
\* and price_dump is not in cooldown for the symbol, and none otherwise; each
\* kind has its own 60-minute cooldown, so neither kind suppresses the other.
C11_PriceSurgeAndDump ==
    [][IsPriceStep =>
        LET s == call'.symbol
            change == call'.value
            surge == change >= 10 /\ ~InCooldown(PRICE_SURGE, s)
            dump == change <= -10 /\ ~InCooldown(PRICE_DUMP, s)
        IN /\ Len(result') = (IF surge \/ dump THEN 1 ELSE 0)
           /\ HasKind(result', PRICE_SURGE) <=> surge
           /\ HasKind(result', PRICE_DUMP) <=> dump
           /\ \A i \in 1..Len(result') : result'[i].symbol = s
    ]_vars

\* a dump fires for a symbol whose surge is still in cooldown
C11_Witness ==
    /\ call.op = "check_price_change" /\ call.value <= -10
    /\ HasKind(result, PRICE_DUMP)
    /\ <<PRICE_SURGE, call.symbol>> \in DOMAIN cooldowns
    /\ cooldowns[<<PRICE_SURGE, call.symbol>>] <= now
    /\ now < cooldowns[<<PRICE_SURGE, call.symbol>>] + 60

\* C12: check_volume_spike returns none whenever avg_volume <= 0 or
\* current_volume / avg_volume < 3 (and then leaves the cooldowns alone);
\* when volume_spike is not in cooldown for the symbol it returns one
\* volume_spike candidate whenever current_volume / avg_volume >= 3, whose
\* multiplier is current_volume / avg_volume; a ratio of exactly 3 fires.
C12_VolumeSpike ==
    [][IsVolumeStep =>
        LET s == call'.symbol
            current == call'.value
            avg == call'.avg_volume
        IN /\ (avg <= 0 \/ current < 3 * avg) =>
                  result' = <<>> /\ cooldowns' = cooldowns
           /\ (avg > 0 /\ current >= 3 * avg /\ ~InCooldown(VOLUME_SPIKE, s)) =>
                  /\ Len(result') = 1
                  /\ result'[1].alert_type = VOLUME_SPIKE
                  /\ result'[1].symbol = s
                  /\ result'[1].value * avg = current * 100
    ]_vars

\* a ratio of exactly 3.00 returned a candidate that carries it
C12_Witness ==
    /\ call.op = "check_volume_spike"
    /\ call.avg_volume > 0 /\ call.value = 3 * call.avg_volume
    /\ Len(result) = 1 /\ result[1].alert_type = VOLUME_SPIKE
    /\ result[1].value = 300

(* ---------------------------------------------------------------------- *)
(* Properties of the explosion score engine                                *)
(* ---------------------------------------------------------------------- *)
IsCalculate == score_call.op = "calculate"
\* a step that is a calculate call
IsCalculateStep == score_call'.op = "calculate"
IsEvaluate == score_call.op = "calculate_with_details"

\* the categories whose indicator raised in the last calculate call
Failed == {c \in CategorySet : Outcome(c, score_call.inputs, score_call.doubles).raised}
Succeeded == CategorySet \ Failed

\* the score the indicator of a category returned in the last calculate call
ReturnedScore(c) == Outcome(c, score_call.inputs, score_call.doubles).score

RECURSIVE SumOver(_, _, _)
SumOver(S, scores, weights) ==
    IF S = {} THEN 0
    ELSE LET c == CHOOSE x \in S : TRUE
         IN scores[c] * weights[c] + SumOver(S \ {c}, scores, weights)

Ones == [c \in CategorySet |-> 1]

\* num/den is the fraction x clamped to [0, 100]; den > 0
IsClampOf(x, num, den) ==
    IF num < 0 THEN x.num = 0
    ELSE IF num > 100000 * den THEN x.num = 100000 * x.den
    ELSE x.num * den = num * x.den

C14_CompositeOverSucceeded ==
    IsCalculate =>
        LET num == SumOver(Succeeded, [c \in CategorySet |-> ReturnedScore(c)],
                           score_result.weights)
            den == SumOver(Succeeded, Ones, score_result.weights)
            x == score_call.explosion_score
        IN /\ x.den > 0
           /\ IF den > 0 THEN IsClampOf(x, num, den) ELSE x.num = 50000 * x.den
           /\ score_result.explosion_score = Round2(x.num, x.den)

\* one indicator failed and the weights in use do not sum to 1
C14_Witness ==
    /\ IsCalculate
    /\ Failed = {WHALE}
    /\ score_call.total_weight = 70
    /\ score_call.weighted_sum = 100000 * 30 + 69996 * 20 + 74750 * 15 + 69996 * 5

\* C15: a failed indicator contributes the neutral 50 with its configured
\* weight: the returned composite equals the one calculate would return had
\* every failed indicator succeeded with a score of 50.
C15_FailedCountsAsNeutral ==
    IsCalculate =>
        LET scores == [c \in CategorySet |->
                          IF c \in Failed THEN 50000 ELSE ReturnedScore(c)]
            x == ClampComposite(Composite(SumOver(CategorySet, scores, score_result.weights),
                                          SumOver(CategorySet, Ones, score_result.weights)))
        IN score_result.explosion_score = Round2(x.num, x.den)

\* C16: status is a function of the returned value: high iff the returned
\* explosion_score >= 70, attention iff 40 <= explosion_score < 70, low iff
\* explosion_score < 40.
C16_StatusOfReturnedValue ==
    IsCalculate =>
        /\ score_result.status = "high" <=> score_result.explosion_score >= 70000
        /\ score_result.status = "attention" <=>
               (40000 <= score_result.explosion_score /\ score_result.explosion_score < 70000)
        /\ score_result.status = "low" <=> score_result.explosion_score < 40000

\* C17: boundedness: in every calculate call the score of every indicator and
\* the composite, before and after rounding, lie in [0, 100], also when a
\* stand-in returns an out-of-range score and after update_weights.
C17_Bounded ==
    IsCalculate =>
        /\ \A c \in CategorySet \ DOMAIN score_call.doubles :
              0 <= score_call.indicator_scores[c] /\ score_call.indicator_scores[c] <= 100000
        /\ 0 <= score_call.explosion_score.num
        /\ score_call.explosion_score.num <= 100000 * score_call.explosion_score.den
        /\ 0 <= score_result.explosion_score /\ score_result.explosion_score <= 100000

\* every indicator returned 150 after the weights had been updated
C17_Witness ==
    /\ IsCalculate
    /\ \A c \in CategorySet : c \in DOMAIN score_call.doubles /\ ReturnedScore(c) = 150000
    /\ score_result.weights[WHALE] = 50
    /\ score_result.explosion_score = 100000

\* the input of an indicator is empty or insufficient
Insufficient(c, input) ==
    CASE c = WHALE -> input.transactions = 0
      [] c = VOLUME -> input.historical_volumes # None /\ input.historical_volumes < 3
      [] c = NETFLOW -> input.inflow_usd # None /\ input.inflow_usd + input.outflow_usd < 10000
      [] c = OI -> input.well_formed /\ input.previous_oi = 0
      [] c = NARRATIVE -> input.news = 0 /\ input.events = 0 /\ input.sentiment_scores = 0

\* C18: neutral default: an indicator given empty or insufficient input (Whale:
\* no transactions; Volume: fewer than 3 historical volumes; Netflow: total flow
\* under $10k; OpenInterest: no earlier open interest to compare against;
\* Narrative: no news, events or sentiment) returns exactly 50.0 with a reason
\* and does not raise.
C18_NeutralDefault ==
    IsEvaluate =>
        (Insufficient(score_call.category, score_call.input) =>
            /\ ~score_result.raised
            /\ score_result.score = 50000
            /\ score_result.reason # "")

\* C19: a ScoreCalculator constructed without custom weights has the weights
\* Whale 0.25, Netflow 0.25, Volume 0.20, OpenInterest 0.15, Narrative 0.15.
C19_DefaultWeights ==
    (score_call.op = "__init__" /\ DOMAIN score_call.custom_weights = {}) =>
        /\ indicators[WHALE].weight = 25
        /\ indicators[NETFLOW].weight = 25
        /\ indicators[VOLUME].weight = 20
        /\ indicators[OI].weight = 15
        /\ indicators[NARRATIVE].weight = 15

\* C20: aggregation is side-effect free: a calculate call leaves the caller's
\* per-category records and all calculator and indicator state unchanged.
C20_CalculateIsPure ==
    [][IsCalculateStep =>
        /\ \A c \in CategorySet : data'.inputs[c] = score_call'.inputs[c]
        /\ indicators' = indicators
        /\ calculation_count' = calculation_count
        /\ last_calculation' = last_calculation
    ]_vars

(* ---------------------------------------------------------------------- *)
(* Zone entries and the cooldown                                           *)
(* ---------------------------------------------------------------------- *)
\* C21: check_score records the current score as the last score on every
\* call, also when a candidate is suppressed by cooldown: a zone entry
\* (last < 70, 70 <= current < 85) made while ScoreHigh is in cooldown returns
\* no ScoreHigh and leaves the symbol inside the zone, and a call that finds
\* the last score >= 70 returns no ScoreHigh whatever the cooldown, so the
\* entry is never reported while the score stays >= 70.
C21_SuppressedEntryIsDropped ==
    [][IsCheckScoreStep =>
        LET s == call'.symbol
            current == call'.value
        IN
        /\ s \in DOMAIN last_scores' /\ last_scores'[s] = current
        /\ (LastBelowHigh(s) /\ 70 <= current /\ current < 85 /\ InCooldown(SCORE_HIGH, s))
              => (CountKind(result', SCORE_HIGH) = 0 /\ last_scores'[s] >= 70)
        /\ (s \in DOMAIN last_scores /\ last_scores[s] >= 70 /\ current >= 70)
              => CountKind(result', SCORE_HIGH) = 0]_vars

\* a zone entry was suppressed by the cooldown of an earlier entry, and the
\* symbol now counts as inside the zone
C21_Witness ==
    /\ call.op = "check_score"
    /\ call.previous < 70 /\ call.value >= 70 /\ call.value < 85
    /\ InCooldown(SCORE_HIGH, call.symbol)
    /\ cooldowns[<<SCORE_HIGH, call.symbol>>] < now
    /\ CountKind(result, SCORE_HIGH) = 0
    /\ last_scores[call.symbol] = call.value

(* ---------------------------------------------------------------------- *)
(* Jobs and the scheduler: properties                                      *)
(* ---------------------------------------------------------------------- *)
\* the tasks that are inside run() of the job object i, before its finally clause
InsideRun(i) == {r \in Runners : runners[r].job = i
                                 /\ runners[r].pc \in {"setup", "execute", "sleep"}}

\* the tasks that built a JobResult
Concluded == {r \in Runners : runners[r].pc = "callback"}

\* C22: one run attempts execute at most max_retries + 1 times; no attempt
\* follows a success, and a cancelled attempt is the last one; the result is a
\* success exactly when the last attempt succeeded; retry_count is the number
\* of failed attempts before the last one; a run gives up on failures only
\* when the attempts are used up.
C22_BoundedRetries ==
    \A r \in Runners \ FreeRunners :
        LET me == runners[r] IN
        me.job # 0 =>
           LET job == instances[me.job] IN
           /\ me.executes <= job.max_retries + 1
           /\ me.pc = "execute" => me.failures = me.executes - 1
           /\ me.pc = "sleep" => me.failures = me.executes
           /\ r \in Concluded =>
                 /\ me.executes >= 1
                 /\ me.retry_count = me.executes - 1
                 /\ me.failures >= me.retry_count
                 /\ (me.error = NoError) <=> (me.failures = me.executes - 1)
                 /\ \/ me.error \in {NoError, CANCELLED}
                    \/ me.executes = job.max_retries + 1

\* a job with max_retries = 2 failed twice, then succeeded: success, retry_count 2
C22_Witness ==
    \E r \in Concluded :
        /\ instances[runners[r].job].max_retries = 2
        /\ runners[r].failures = 2 /\ runners[r].executes = 3
        /\ runners[r].error = NoError /\ runners[r].retry_count = 2

\* C23: every run that passed the guard and left the try block, whichever way,
\* called cleanup once, and is_running is set exactly while a run is before
\* its finally clause, so that the next run() is accepted.
C23_CleanupAlwaysRuns ==
    \A i \in 1..Len(instances) :
        /\ Cardinality(InsideRun(i)) <= 1
        /\ instances[i].is_running <=> InsideRun(i) # {}
        /\ instances[i].cleanups = instances[i].setups - Cardinality(InsideRun(i))
        /\ ~instances[i].is_running => ~RunGuard(instances[i])

\* a run that left through an exception or a cancellation, before any result,
\* was cleaned up and the next run of the same job was accepted
C23_Witness ==
    \E i \in 1..Len(instances) :
        /\ instances[i].setups = 2 /\ instances[i].cleanups = 1
        /\ instances[i].total_runs = 0
        /\ instances[i].is_running

\* the tasks in execute() of a job with this id
Executing(job_id) == {r \in Runners : /\ runners[r].pc = "execute"
                                      /\ instances[runners[r].job].job_id = job_id}

\* C24: at most one execute() of a given job is in progress at any time,
\* across scheduled triggers, the startup run and run_job_now.
C24_NeverConcurrentWithItself ==
    \A job_id \in JobIds : Cardinality(Executing(job_id)) <= 1

\* C25: once stop() has returned and the state is STOPPED, no job is executing.
C25_StoppedMeansNoJobExecuting ==
    (state = STOPPED /\ ctl = "idle") => \A job_id \in JobIds : Executing(job_id) = {}

\* the moves of the state that the scheduler makes
StateMoves == {<<STOPPED, STARTING>>, <<STARTING, RUNNING>>, <<RUNNING, PAUSED>>,
               <<PAUSED, RUNNING>>, <<RUNNING, STOPPING>>, <<STOPPING, STOPPED>>}

\* C26: the state moves only along STOPPED -> STARTING -> RUNNING,
\* RUNNING <-> PAUSED and RUNNING -> STOPPING -> STOPPED; no call moves it
\* otherwise, so no step takes a PAUSED scheduler anywhere but to RUNNING.
C26_StateMachine ==
    [][/\ state' # state => <<state, state'>> \in StateMoves
       /\ state = PAUSED => state' \in {PAUSED, RUNNING}]_vars

\* a scheduler that was stopped and started again is paused
C26_Witness == state = PAUSED /\ Len(instances) = 2 /\ ctl = "idle"

(* ---------------------------------------------------------------------- *)
(* Indicator weights                                                       *)
(* ---------------------------------------------------------------------- *)
\* C27: every indicator weight is within [0, 1] (0 to 100 hundredths), after
\* construction and after any update_weights calls.
C27_WeightsWithinUnit ==
    \A c \in CategorySet : indicators[c].weight >= 0 /\ indicators[c].weight <= 100

(* ---------------------------------------------------------------------- *)
(* AlertManager: properties                                                *)
(* ---------------------------------------------------------------------- *)
IsProcessStep == process_count' = process_count + 1

\* the rows of a kind stored for a symbol
Stored(db, kind, symbol) ==
    {i \in 1..Len(db) : db[i].alert_type = kind /\ db[i].symbol = symbol}

\* C28: a candidate that could not be persisted is dropped, and its cooldown
\* stays: on every process_score call each candidate of the monitor, stored or
\* not, has its cooldown stamped at the time of the call; only the candidates
\* that were persisted add a row and an id; and a call made while the cooldown
\* of a kind and symbol is in force stores no alert of that kind for that
\* symbol, whether or not the alert that set the cooldown was stored.
C28_FailedAlertIsLost ==
    [][IsProcessStep =>
          LET symbol == manager_call'.symbol
              candidates == manager_call'.candidates
          IN
          /\ \A i \in 1..Len(candidates) :
                 /\ cooldowns'[<<candidates[i].alert_type, symbol>>] = now
                 /\ now' < cooldowns'[<<candidates[i].alert_type, symbol>>]
                           + CooldownMinutes(candidates[i].alert_type)
          /\ Len(alerts_db') = Len(alerts_db) + Len(manager_call'.created_ids)
          /\ Len(manager_call'.created_ids)
                = Len(candidates) - Cardinality(manager_call'.failed)
          /\ \A i \in manager_call'.failed :
                 Stored(alerts_db', candidates[i].alert_type, symbol)
                   = Stored(alerts_db, candidates[i].alert_type, symbol)
          /\ created_alerts' = Len(alerts_db')
          /\ \A kind \in {SCORE_HIGH, SCORE_CRITICAL, SCORE_SPIKE, SCORE_DROP} :
                 InCooldown(kind, symbol) =>
                    /\ ~HasKind(candidates, kind)
                    /\ Stored(alerts_db', kind, symbol) = Stored(alerts_db, kind, symbol)
                    /\ cooldowns'[<<kind, symbol>>] = cooldowns[<<kind, symbol>>]]_vars

\* the score enters the high zone again inside the cooldown of an alert that
\* was never stored: nothing is created
C28_Witness ==
    /\ manager_call.op = "process_score"
    /\ call.previous < 70 /\ call.value >= 70 /\ call.value < 85
    /\ InCooldown(SCORE_HIGH, "BTC")
    /\ cooldowns[<<SCORE_HIGH, "BTC">>] < now
    /\ Stored(alerts_db, SCORE_HIGH, "BTC") = {}
    /\ sent_notifications = 0
    /\ manager_call.candidates = <<>> /\ manager_call.created_ids = <<>>

(* ---------------------------------------------------------------------- *)
(* WebSocket connections: properties                                       *)
(* ---------------------------------------------------------------------- *)
\* C29: every client id in a subscription set is a key of active_connections
\* (so a client that was disconnected is in no subscription set).
C29_SubscribersAreConnected ==
    \A channel \in Channels : subscriptions[channel] \subseteq active_connections

\* C30: one broadcast_* call sends its message to each client at most once.
C30_AtMostOncePerClient ==
    \A c \in Clients : broadcasting.delivered[c] <= 1

====
